---- MODULE Spec2Model ----
(***************************************************************************)
(* MoveSync session viewer: the IMU panel's render pipeline, its per-IMU   *)
(* fusion cache with background precompute, and the time-sync panel.       *)
(*                                                                         *)
(* The browser event loop is modelled as it schedules the code: a handler  *)
(* (user event, script load) runs only when the microtask queue is empty;  *)
(* an async function suspended at `await` of a settled promise is resumed  *)
(* from the microtask queue in FIFO order; one suspended at the dependency *)
(* loader or at the fusion script loader waits until that script loads.    *)
(*                                                                         *)
(* Times are integer ticks.  A nullable value is <<>> (null) or <<v>>.     *)
(* A FusionResult is <<rowsCsv, timesCsv>>: the CSV whose rows the         *)
(* orientations were computed from and the CSV whose rows the times array  *)
(* was read from; a CSV is named <<session, imuIndex>>.                    *)
(***************************************************************************)
EXTENDS Integers, Sequences, FiniteSets, TLC

\* ------------------------------------------------------------------
\* Bounds
\* ------------------------------------------------------------------
MaxRenders == 2      \* renderImu invocations that may be suspended at once
MaxVideoT  == 2      \* video playhead positions 0..MaxVideoT

\* ------------------------------------------------------------------
\* Values
\* ------------------------------------------------------------------
Null == <<>>
Some(v) == <<v>>
Val(n) == n[1]
IsSet(n) == n # Null

NoSession == "none"

\* The sessions held by the session store.  Each IMU descriptor gives the
\* kind of its csvText and the span of its normalised time column.
\*   "ok"     rows with all nine axes            (fusion succeeds)
\*   "bad"    rows, but an axis is missing       (fusion throws)
\*   "norows" a header line only                 (fusion throws: no data)
\*   "none"   empty csvText
Sessions == {"A", "B", "C"}

SessionImus(s) ==
  CASE s = "A" -> << [csv |-> "ok",     maxT |-> 2],
                     [csv |-> "bad",    maxT |-> 1],
                     [csv |-> "ok",     maxT |-> 1] >>
    [] s = "B" -> << [csv |-> "ok",     maxT |-> 1],
                     [csv |-> "norows", maxT |-> 0],
                     [csv |-> "ok",     maxT |-> 2] >>
    [] s = "C" -> << [csv |-> "none",   maxT |-> 0],
                     [csv |-> "ok",     maxT |-> 1] >>
    [] s = "D" -> << [csv |-> "ok",     maxT |-> 0],
                     [csv |-> "ok",     maxT |-> 2],
                     [csv |-> "ok",     maxT |-> 1] >>
    [] OTHER   -> << >>

MaxImus == 3
ImuIdx == 0 .. (MaxImus - 1)

Min(a, b) == IF a <= b THEN a ELSE b
Max(a, b) == IF a >= b THEN a ELSE b

\* getSessionImuList(session)
getSessionImuList(s) == SessionImus(s)

\* imus[idx] with JavaScript's 0-based index; Null when out of range
ImuAt(s, idx) ==
  IF idx >= 0 /\ idx < Len(getSessionImuList(s))
  THEN Some(getSessionImuList(s)[idx + 1]) ELSE Null

\* imu?.csvText || ""  is non-empty
HasCsvText(s, idx) == IsSet(ImuAt(s, idx)) /\ Val(ImuAt(s, idx)).csv # "none"
CsvKind(s, idx) == IF IsSet(ImuAt(s, idx)) THEN Val(ImuAt(s, idx)).csv ELSE "none"
CsvMaxT(s, idx) == IF IsSet(ImuAt(s, idx)) THEN Val(ImuAt(s, idx)).maxT ELSE 0

\* clamp(n, a, b)
clamp(n, a, b) == Min(b, Max(a, n))

\* FusionProcessor.process: throws when there are no rows or an axis triplet
\* is missing; otherwise one orientation per row of `rowsCsv`, and
\* times: timeSeconds as handed in by the caller.
Failed == <<"failed">>
process(rowsCsv, timesCsv) ==
  IF CsvKind(rowsCsv[1], rowsCsv[2]) = "ok" THEN <<rowsCsv, timesCsv>> ELSE Failed

\* ------------------------------------------------------------------
\* State
\* ------------------------------------------------------------------
VARIABLES
  activeSession,          \* session store: rt.activeSession
  depsLoaded,             \* window.__imuPanelDepsPromise has resolved
  fusionState,            \* fusion-loader: "absent" | "loading" | "loaded"
  mq,                     \* microtask queue: suspended async functions, FIFO
  depsWaiters,            \* functions awaiting __imuPanelDepsPromise
  fusionWaiters,          \* functions awaiting the loader's loadingPromise
  selectedImuIndex,
  lastSessionForSelector,
  selectorSession,        \* session whose IMU tabs are shown (Null: hidden)
  lastPrecomputeSession,  \* _lastPrecomputeSession
  imuRows,                \* CSV whose rows the panel shows (Null: [])
  fusionCacheByImu,
  imuFusionData,          \* window.imuFusionData
  runtimeFusion,          \* window.MoveSync.runtime.fusion
  imuCursor,              \* [x, minX, maxX]
  imuFullRangeMaxX,
  imuMarker,              \* imuMarker.x
  imuTimeframe,           \* [t1, t2, active, start, end]
  tsState,                \* time-sync panel state [videoMarkerT, offset, t1, t2]
  followVideo,            \* window.IMU_STATE.followVideo
  toggleEnabled,          \* Follow/Manual buttons are not disabled
  timeSyncOffset,         \* session viewer's cache: timeSync.offset
  videoT,                 \* video.currentTime
  seekedPending,          \* the video's seeked/timeupdate event for a playhead
                          \*   write by the IMU -> VIDEO listener is not yet delivered
  armSelect,              \* ArmAngleUI: IMU index chosen for each joint (Null: "")
  analyserImus,           \* ArmAngleAnalyser #shoulder, #elbow, #wrist
  armAngles,              \* ArmAngleAnalyser #angles
  armResults,             \* what the results panel shows (Null: hidden)
  libIn,                  \* arguments of a call of one of the helper functions
  libOut,                 \* what the call returned or threw (Null: not yet called)
  rt,                     \* window.MoveSync.runtime.sessionViewer as the session store and
                          \*   the upload page keep it: [sessions, activeSession, nextSessionId]
  uploadState,            \* the upload page's state: [video, imus, nextImuId, reads]
  dispatched,             \* events dispatched by the handler that ran last
  bgFailed,               \* history: CSVs whose background fusion failed,
                          \*   .ever  at any time,
                          \*   .run   since _lastPrecomputeSession last changed
  lastOp                  \* the handler or continuation that ran last

fusionVars == << selectedImuIndex, lastSessionForSelector, selectorSession,
                 lastPrecomputeSession,
                 imuRows, fusionCacheByImu, imuFusionData, runtimeFusion >>
loopVars   == << depsLoaded, fusionState, mq, depsWaiters, fusionWaiters >>
cursorVars == << imuCursor, imuFullRangeMaxX, imuMarker, imuTimeframe >>
syncVars   == << tsState, followVideo, toggleEnabled, timeSyncOffset, seekedPending >>
armVars    == << armSelect, analyserImus, armAngles, armResults >>

vars == << activeSession, depsLoaded, fusionState, mq, depsWaiters, fusionWaiters,
           selectedImuIndex, lastSessionForSelector, selectorSession,
           lastPrecomputeSession, imuRows, fusionCacheByImu, imuFusionData, runtimeFusion,
           imuCursor, imuFullRangeMaxX, imuMarker, imuTimeframe,
           tsState, followVideo, toggleEnabled, timeSyncOffset, videoT,
           seekedPending, armSelect, analyserImus, armAngles, armResults,
           libIn, libOut, rt, uploadState,
           dispatched, bgFailed, lastOp >>

\* ------------------------------------------------------------------
\* Suspended async functions
\* ------------------------------------------------------------------
\* kind   "render" (renderImu) or "pre" (precomputeAllImuFusion)
\* origin "refresh" (controller.refresh) or "tab" (IMU tab click)
\* pc     the await it is suspended at:
\*          "deps"   await window.__imuPanelDepsPromise
\*          "loader" await MoveSyncFusionLoader.ensureLoaded()
\*          "fusion" await FusionManager.processFusion(...)
\* rows   renderImu's local `rows`/`headers` (the CSV it parsed)
\* idx    the precompute loop's idx
\* res    the settled value of the awaited processFusion promise
NewRender(s, o) ==
  [kind |-> "render", origin |-> o, sess |-> s, pc |-> "deps",
   rows |-> Null, idx |-> 0, res |-> Null]

Quiescent == Len(depsWaiters) + Len(fusionWaiters) + Len(mq) = 0

\* session !== lastSessionForSelector; the empty session is a fresh {} each time
SessionChanged(s) == s = NoSession \/ s # lastSessionForSelector

\* renderImuSelector's effect on selectedImuIndex
SelectorIndex(s, sel) ==
  IF Len(getSessionImuList(s)) <= 1 THEN 0
  ELSE clamp(sel, 0, Len(getSessionImuList(s)) - 1)

\* The precompute loop: the first idx >= from that is not skipped, or -1.
\* Skipped: imuFusionData[idx] != null, empty csvText, no header or no rows.
PreWants(s, idx, data) ==
  /\ data[idx] = Null
  /\ HasCsvText(s, idx)
  /\ CsvKind(s, idx) # "norows"

NextIdx(s, from, data) ==
  LET cand == { i \in ImuIdx : i >= from /\ i < Len(getSessionImuList(s))
                               /\ PreWants(s, i, data) }
  IN IF cand = {} THEN -1 ELSE CHOOSE i \in cand : \A j \in cand : i <= j

\* Runs the loop from `from` up to its next await (or its end); returns the
\* microtask queue.
PreAdvance(t, from, data, q) ==
  LET n == NextIdx(t.sess, from, data)
  IN IF n = -1 THEN q
     ELSE Append(q, [t EXCEPT !.pc = "fusion", !.idx = n,
                              !.res = process(<<t.sess, n>>, <<t.sess, n>>)])

\* ArmAngleUI.populateSelectors(imuList): every joint selector is refilled
\* (`selectEl.innerHTML = ...`), which leaves it at "Select IMU..." whatever
\* it showed before; then each joint whose selector is still "" takes the
\* index of an IMU whose skeletonNode includes the joint's name, so the first
\* such IMU wins.  The IMUs of Sessions carry no skeletonNode.
populateSelectors(imuList) ==
  LET node(k) == IF "skeletonNode" \in DOMAIN imuList[k] THEN imuList[k].skeletonNode ELSE ""
      includes(n, part) == n \in { "left_" \o part, "right_" \o part }
      pick(part) ==
        LET hits == { k \in 1 .. Len(imuList) : includes(node(k), part) }
        IN IF hits = {} THEN Null
           ELSE Some((CHOOSE k \in hits : \A j \in hits : k <= j) - 1)
  IN [shoulder |-> pick("shoulder"), elbow |-> pick("elbow"), wrist |-> pick("wrist")]

\* ------------------------------------------------------------------
\* Synchronous handler code: time-sync panel, IMU cursor, follow-video.
\* A handler that dispatches events runs their listeners before it
\* returns, so each is an operator on the record of the state it touches.
\* ------------------------------------------------------------------
World ==
  [ts |-> tsState, follow |-> followVideo, toggle |-> toggleEnabled,
   cache |-> timeSyncOffset, cursor |-> imuCursor, full |-> imuFullRangeMaxX,
   marker |-> imuMarker, tf |-> imuTimeframe, video |-> videoT,
   seeked |-> seekedPending,
   events |-> << >>]

Emit(w, e) == [w EXCEPT !.events = Append(@, e)]

\* safeNum(x, fallback): Number(null) is 0, which is finite
safeNum(x, fallback) == IF x = Null THEN Some(0) ELSE x

\* canFollow = IMU_STATE.followVideo && Number.isFinite(timeSync.offset)
canFollow(w) == w.follow /\ IsSet(w.cache)

imuTimeToVideoTimeMinus(imuTime, offset) == imuTime - offset

\* const videoT = imuTime + timeSync.offset
imuTimeToVideoTime(imuTime, offset) == imuTime + offset

\* v.currentTime = Math.max(0, videoT): the element keeps the playhead within
\* the video's duration
PlayheadAfterWrite(videoTime) == clamp(Max(0, videoTime), 0, MaxVideoT)

\* IMU -> VIDEO listener of movesync:imu-cursor-changed; the write of
\* v.currentTime starts a seek whose seeked/timeupdate events are delivered
\* after the listener has returned (suppressVideoToImu is false again by then)
ImuToVideoListener(w, suppressImuToVideo) ==
  IF ~canFollow(w) \/ suppressImuToVideo THEN w
  ELSE [w EXCEPT !.video = PlayheadAfterWrite(imuTimeToVideoTime(w.cursor.x, Val(w.cache))),
                 !.seeked = TRUE]

setImuCursorXUnclamped(w, x, suppressImuToVideo) ==
  LET w1 == [w EXCEPT !.cursor.x = x]
  IN ImuToVideoListener(Emit(w1, "imu-cursor-changed"), suppressImuToVideo)

\* setImuCursorX(x), with the listeners of the event it dispatches
setImuCursorX(w, x, suppressImuToVideo) ==
  LET w1 == [w EXCEPT !.cursor.x = clamp(x, w.cursor.minX, w.cursor.maxX)]
  IN ImuToVideoListener(Emit(w1, "imu-cursor-changed"), suppressImuToVideo)

\* pushVideoTimeToImu: the IMU cursor follows the video only in follow mode
pushVideoTimeToImu(w) ==
  IF ~canFollow(w) THEN w
  ELSE setImuCursorX(w, w.video - Val(w.cache), TRUE)

\* wireSyncPanel's applyMode, listener of movesync:time-sync-mode-changed
applyMode(w, f) ==
  [w EXCEPT !.follow = IF f /\ w.cache = Null THEN FALSE ELSE f]

\* setFollowVideoMode(followVideo) and the listeners of its event
setFollowVideoMode(w, f) ==
  LET w1 == Emit([w EXCEPT !.follow = f], "time-sync-mode-changed")
      w2 == applyMode(w1, f)
  IN IF canFollow(w2) THEN pushVideoTimeToImu(w2) ELSE w2

\* forceManualMode
forceManualModeKeepsMode(w) == setFollowVideoMode(w, w.follow)
forceManualMode(w) == setFollowVideoMode(w, FALSE)

\* listeners of movesync:time-sync-changed: the viewer's offset cache, then
\* the follow-video snap
TimeSyncChanged(w) ==
  LET w1 == [Emit(w, "time-sync-changed") EXCEPT !.cache = w.ts.offset]
  IN IF canFollow(w1) THEN pushVideoTimeToImu(w1) ELSE w1

\* resetZoomToFullRange
resetZoomToFullRange(w) ==
  [w EXCEPT !.cursor = [x |-> clamp(w.cursor.x, 0, w.full), minX |-> 0, maxX |-> w.full]]

TimeframeResetKeepsBounds(w) ==
  [Emit(w, "imu-timeframe-reset") EXCEPT
     !.tf = [t1 |-> Null, t2 |-> Null, active |-> FALSE, start |-> 0, end |-> 0]]

\* listener of movesync:imu-timeframe-reset
TimeframeReset(w) ==
  resetZoomToFullRange(
    [Emit(w, "imu-timeframe-reset") EXCEPT
       !.tf = [t1 |-> Null, t2 |-> Null, active |-> FALSE, start |-> 0, end |-> 0]])

\* listener of movesync:imu-timeframe-marked
TimeframeMarked(w) ==
  [Emit(w, "imu-timeframe-marked") EXCEPT
     !.tf.t1 = safeNum(w.ts.t1, w.tf.t1),
     !.tf.t2 = safeNum(w.ts.t2, w.tf.t2)]

\* listener of movesync:imu-timeframe-applied
TimeframeApplied(w, start, end) ==
  LET a == Min(start, end)
      b == Max(start, end)
  IN [Emit(w, "imu-timeframe-applied") EXCEPT
        !.tf = [t1 |-> safeNum(w.ts.t1, w.tf.t1), t2 |-> safeNum(w.ts.t2, w.tf.t2),
                active |-> TRUE, start |-> a, end |-> b],
        !.cursor = [x |-> clamp(w.cursor.x, a, b), minX |-> a, maxX |-> b]]

\* markT1 / markT2
markT1(w) == TimeframeMarked([w EXCEPT !.ts.t1 = Some(w.cursor.x)])
markT2(w) == TimeframeMarked([w EXCEPT !.ts.t2 = Some(w.cursor.x)])

resetT1T2DropsOffset(w) ==
  TimeframeReset([w EXCEPT !.ts.t1 = Null, !.ts.t2 = Null, !.ts.offset = Null])

\* resetT1T2
resetT1T2(w) == TimeframeReset([w EXCEPT !.ts.t1 = Null, !.ts.t2 = Null])

canApplyTimeframeAllowsEqual(w) == IsSet(w.ts.t1) /\ IsSet(w.ts.t2)

\* canApplyTimeframe
canApplyTimeframe(w) == IsSet(w.ts.t1) /\ IsSet(w.ts.t2) /\ w.ts.t1 # w.ts.t2

\* applyTimeframe
applyTimeframe(w) ==
  IF ~canApplyTimeframe(w) THEN w
  ELSE TimeframeApplied(w, Min(Val(w.ts.t1), Val(w.ts.t2)), Max(Val(w.ts.t1), Val(w.ts.t2)))

\* markVideo
markVideo(w) == [w EXCEPT !.ts.videoMarkerT = Some(w.video)]

\* markImu -> setMarkerX(x): imuMarker.x = clamp(v, 0, imuCursor.maxX)
markImu(w) == [w EXCEPT !.marker = Some(clamp(w.cursor.x, 0, w.cursor.maxX))]

\* computeOffset
computeOffsetSwapped(w) ==
  IF ~IsSet(w.ts.videoMarkerT) \/ ~IsSet(w.marker) THEN w
  ELSE LET w1 == [w EXCEPT !.ts.offset = Some(Val(w.marker) - Val(w.ts.videoMarkerT))]
           w2 == [w1 EXCEPT !.toggle = TRUE]
       IN TimeSyncChanged(setFollowVideoMode(w2, FALSE))

computeOffset(w) ==
  IF ~IsSet(w.ts.videoMarkerT) \/ ~IsSet(w.marker) THEN w
  ELSE LET w1 == [w EXCEPT !.ts.offset = Some(Val(w.ts.videoMarkerT) - Val(w.marker))]
           w2 == [w1 EXCEPT !.toggle = TRUE]
       IN TimeSyncChanged(forceManualMode(w2))

\* clearAll
clearAllKeepsMode(w) ==
  LET w1 == [w EXCEPT !.ts = [videoMarkerT |-> Null, offset |-> Null,
                              t1 |-> Null, t2 |-> Null],
                      !.marker = Null]
      w2 == TimeframeReset(w1)
      w3 == [w2 EXCEPT !.toggle = FALSE]
  IN TimeSyncChanged(w3)

clearAllKeepsOffset(w) ==
  LET w1 == [w EXCEPT !.ts = [videoMarkerT |-> Null, offset |-> w.ts.offset,
                              t1 |-> Null, t2 |-> Null],
                      !.marker = Null]
      w2 == TimeframeReset(w1)
      w3 == [w2 EXCEPT !.toggle = FALSE]
  IN TimeSyncChanged(setFollowVideoMode(w3, FALSE))

clearAll(w) ==
  LET w1 == [w EXCEPT !.ts = [videoMarkerT |-> Null, offset |-> Null,
                              t1 |-> Null, t2 |-> Null],
                      !.marker = Null]
      w2 == TimeframeReset(w1)
      w3 == [w2 EXCEPT !.toggle = FALSE]
  IN TimeSyncChanged(forceManualMode(w3))

\* writes a handler's result back to the state
Commit(w) ==
  /\ tsState' = w.ts
  /\ followVideo' = w.follow
  /\ toggleEnabled' = w.toggle
  /\ timeSyncOffset' = w.cache
  /\ imuCursor' = w.cursor
  /\ imuFullRangeMaxX' = w.full
  /\ imuMarker' = w.marker
  /\ imuTimeframe' = w.tf
  /\ videoT' = w.video
  /\ seekedPending' = w.seeked
  /\ dispatched' = w.events

\* ------------------------------------------------------------------
\* Starting renderImu: it runs to its first await (the dependency promise)
\* ------------------------------------------------------------------
\* The queues after an async function suspends at `await depsPromise`
AwaitDeps(t, q) ==
  IF depsLoaded
  THEN /\ mq' = Append(q, t)
       /\ depsWaiters' = depsWaiters
  ELSE /\ mq' = q
       /\ depsWaiters' = Append(depsWaiters, t)

\* ViewerController.refresh -> renderSession / renderNoSession, up to the first
\* await of imuPanel.render: clearMarker, and the video panel rewinds and
\* reloads the video (events of the old resource are dropped).
refresh(w) == [w EXCEPT !.marker = Null, !.video = 0, !.seeked = FALSE]

\* Session picker: setActiveSessionById(id) dispatches
\* movesync:active-session-changed; its listeners are the time-sync panel's
\* clearAll and then the controller's refresh.
SelectSession(s) ==
  /\ mq = << >>
  /\ s \in Sessions
  /\ s # activeSession
  /\ Len(depsWaiters) + Len(fusionWaiters) < MaxRenders
  /\ activeSession' = s
  /\ Commit(refresh(clearAll(Emit(World, "active-session-changed"))))
  /\ AwaitDeps(NewRender(s, "refresh"), mq)
  /\ lastOp' = "SelectSession"
  /\ UNCHANGED << libIn, libOut, rt, uploadState >>
  /\ bgFailed' = bgFailed
  /\ UNCHANGED << depsLoaded, fusionState, fusionWaiters, fusionVars >>
  /\ UNCHANGED armVars

\* IMU tab click (renderImuSelector's onclick): selectedImuIndex = idx;
\* renderImu(session) with the session the selector was rendered for.
TabClick(idx) ==
  /\ mq = << >>
  /\ IsSet(selectorSession)
  /\ idx \in ImuIdx
  /\ idx < Len(getSessionImuList(Val(selectorSession)))
  /\ Len(depsWaiters) + Len(fusionWaiters) < MaxRenders
  /\ selectedImuIndex' = idx
  /\ AwaitDeps(NewRender(Val(selectorSession), "tab"), mq)
  /\ dispatched' = << >>
  /\ lastOp' = "TabClick"
  /\ UNCHANGED << libIn, libOut, rt, uploadState >>
  /\ bgFailed' = bgFailed
  /\ UNCHANGED << activeSession, depsLoaded, fusionState, fusionWaiters,
                  lastSessionForSelector, selectorSession, lastPrecomputeSession,
                  imuRows, fusionCacheByImu, imuFusionData, runtimeFusion,
                  cursorVars, syncVars, videoT >>
  /\ UNCHANGED armVars

\* The IMU panel's dependency scripts finish loading
DepsLoad ==
  /\ mq = << >>
  /\ ~depsLoaded
  /\ depsLoaded' = TRUE
  /\ mq' = depsWaiters
  /\ depsWaiters' = << >>
  /\ dispatched' = << >>
  /\ lastOp' = "DepsLoad"
  /\ UNCHANGED << libIn, libOut, rt, uploadState >>
  /\ bgFailed' = bgFailed
  /\ UNCHANGED << activeSession, fusionState, fusionWaiters, fusionVars,
                  cursorVars, syncVars, videoT >>
  /\ UNCHANGED armVars

\* fusion-processor.js finishes loading (script.onload in ensureLoaded)
FusionLoad ==
  /\ mq = << >>
  /\ fusionState = "loading"
  /\ fusionState' = "loaded"
  /\ mq' = fusionWaiters
  /\ fusionWaiters' = << >>
  /\ dispatched' = << >>
  /\ lastOp' = "FusionLoad"
  /\ UNCHANGED << libIn, libOut, rt, uploadState >>
  /\ bgFailed' = bgFailed
  /\ UNCHANGED << activeSession, depsLoaded, depsWaiters, fusionVars,
                  cursorVars, syncVars, videoT >>
  /\ UNCHANGED armVars

\* ------------------------------------------------------------------
\* renderImu, one action per stretch between awaits
\* ------------------------------------------------------------------
IsHead(kind, pc) == mq # << >> /\ Head(mq).kind = kind /\ Head(mq).pc = pc

\* The queues after `await MoveSyncFusionLoader.ensureLoaded()`
AwaitLoader(t, q) ==
  IF fusionState = "loaded"
  THEN /\ mq' = Append(q, t)
       /\ fusionWaiters' = fusionWaiters
       /\ fusionState' = fusionState
  ELSE /\ mq' = q
       /\ fusionWaiters' = Append(fusionWaiters, t)
       /\ fusionState' = "loading"

\* `if (!csvText) { ... return; }`: renderImu shows the empty state and returns
ReturnsEarlyIfCached(s, sel) == ~HasCsvText(s, sel) \/ fusionCacheByImu[sel] # Null
ReturnsEarly(s, sel) == ~HasCsvText(s, sel)

\* After the dependency await: selector, CSV parse, time normalisation and
\* cursor reset; returns on an empty csvText, else suspends at the loader.
RenderSync ==
  /\ IsHead("render", "deps")
  /\ LET t   == Head(mq)
         sel == SelectorIndex(t.sess, IF SessionChanged(t.sess) THEN 0 ELSE selectedImuIndex)
     IN /\ lastSessionForSelector' = t.sess
        /\ selectedImuIndex' = sel
        /\ selectorSession' = IF Len(getSessionImuList(t.sess)) <= 1 THEN Null ELSE Some(t.sess)
        /\ IF ReturnsEarly(t.sess, sel)
           THEN /\ imuRows' = Null
                /\ fusionCacheByImu' = [fusionCacheByImu EXCEPT ![sel] = Null]
                /\ imuCursor' = [x |-> 0, minX |-> 0, maxX |-> 0]
                /\ imuFullRangeMaxX' = 0
                /\ imuMarker' = Null
                /\ mq' = Tail(mq)
                /\ UNCHANGED << fusionWaiters, fusionState >>
           ELSE /\ imuRows' = <<t.sess, sel>>
                /\ imuCursor' = [x |-> 0, minX |-> 0, maxX |-> CsvMaxT(t.sess, sel)]
                /\ imuFullRangeMaxX' = CsvMaxT(t.sess, sel)
                /\ AwaitLoader([t EXCEPT !.pc = "loader", !.rows = <<t.sess, sel>>], Tail(mq))
                /\ UNCHANGED << fusionCacheByImu, imuMarker >>
  /\ dispatched' = << >>
  /\ lastOp' = "RenderSync"
  /\ UNCHANGED << libIn, libOut, rt, uploadState >>
  /\ bgFailed' = bgFailed
  /\ UNCHANGED << activeSession, depsLoaded, depsWaiters, lastPrecomputeSession,
                  imuFusionData, runtimeFusion, imuTimeframe, syncVars, videoT >>
  /\ UNCHANGED armVars

\* After the loader await: timeSeconds is read from the panel's imuRows, the
\* rows are the function's own; processFusion runs and its promise is awaited.
RenderFusion ==
  /\ IsHead("render", "loader")
  /\ LET t == Head(mq)
     IN mq' = Append(Tail(mq), [t EXCEPT !.pc = "fusion", !.res = process(t.rows, imuRows)])
  /\ dispatched' = << >>
  /\ lastOp' = "RenderFusion"
  /\ UNCHANGED << libIn, libOut, rt, uploadState >>
  /\ bgFailed' = bgFailed
  /\ UNCHANGED << activeSession, depsLoaded, fusionState, depsWaiters, fusionWaiters,
                  fusionVars, cursorVars, syncVars, videoT >>
  /\ UNCHANGED armVars

\* `if (!session || session === _lastPrecomputeSession) return;` and
\* `if (imus.length < 2) return;`
PrecomputeReturnsUnguarded(s) == Len(getSessionImuList(s)) < 2
PrecomputeReturns(s) == s = lastPrecomputeSession \/ Len(getSessionImuList(s)) < 2

\* precomputeAllImuFusion up to its first await; returns the queue
StartPrecompute(s, q) ==
  IF PrecomputeReturns(s) THEN q
  ELSE Append(q, [kind |-> "pre", origin |-> "refresh", sess |-> s, pc |-> "deps",
                  rows |-> Null, idx |-> 0, res |-> Null])

\* fusionCacheByImu.set(selectedImuIndex, fusionData || null)
CacheSetDropped(cache, idx, res) == cache
CacheSet(cache, idx, res) == [cache EXCEPT ![idx] = res]

\* After the processFusion await: store the result (or log the failure), then
\* kick off the background precompute.
RenderStore ==
  /\ IsHead("render", "fusion")
  /\ LET t == Head(mq)
     IN /\ IF t.res # Failed
           THEN /\ fusionCacheByImu' = CacheSet(fusionCacheByImu, selectedImuIndex, t.res)
                /\ imuFusionData' = [imuFusionData EXCEPT ![selectedImuIndex] = t.res]
                /\ runtimeFusion' = t.res
           ELSE UNCHANGED << fusionCacheByImu, imuFusionData, runtimeFusion >>
        /\ mq' = StartPrecompute(t.sess, Tail(mq))
        /\ lastPrecomputeSession' = t.sess
        /\ bgFailed' = IF t.sess = lastPrecomputeSession THEN bgFailed
                       ELSE [bgFailed EXCEPT !.run = {}]
  /\ dispatched' = << >>
  /\ lastOp' = "RenderStore"
  /\ UNCHANGED << libIn, libOut, rt, uploadState >>
  /\ UNCHANGED << activeSession, depsLoaded, fusionState, depsWaiters, fusionWaiters,
                  selectedImuIndex, lastSessionForSelector, selectorSession, imuRows,
                  cursorVars, syncVars, videoT >>
  /\ armSelect' = IF Head(mq).res # Failed
                  THEN populateSelectors(getSessionImuList(Head(mq).sess))
                  ELSE armSelect
  /\ UNCHANGED << analyserImus, armAngles, armResults >>

\* ------------------------------------------------------------------
\* precomputeAllImuFusion, one action per stretch between awaits
\* ------------------------------------------------------------------
\* after `await window.__imuPanelDepsPromise` (settled by now)
PreDeps ==
  /\ IsHead("pre", "deps")
  /\ mq' = Append(Tail(mq), [Head(mq) EXCEPT !.pc = "loader"])
  /\ dispatched' = << >>
  /\ lastOp' = "PreDeps"
  /\ UNCHANGED << libIn, libOut, rt, uploadState >>
  /\ bgFailed' = bgFailed
  /\ UNCHANGED << activeSession, depsLoaded, fusionState, depsWaiters, fusionWaiters,
                  fusionVars, cursorVars, syncVars, videoT >>
  /\ UNCHANGED armVars

\* after `await ensureLoaded()`: the loop runs to its first processFusion await
PreLoop ==
  /\ IsHead("pre", "loader")
  /\ mq' = PreAdvance(Head(mq), 0, imuFusionData, Tail(mq))
  /\ dispatched' = << >>
  /\ lastOp' = "PreLoop"
  /\ UNCHANGED << libIn, libOut, rt, uploadState >>
  /\ bgFailed' = bgFailed
  /\ UNCHANGED << activeSession, depsLoaded, fusionState, depsWaiters, fusionWaiters,
                  fusionVars, cursorVars, syncVars, videoT >>
  /\ armSelect' = IF NextIdx(Head(mq).sess, 0, imuFusionData) = -1
                  THEN populateSelectors(getSessionImuList(Head(mq).sess))
                  ELSE armSelect
  /\ UNCHANGED << analyserImus, armAngles, armResults >>

\* the for loop's idx++ once the try/catch of one iteration is done
LoopNext(t) == t.idx + 1

\* after the processFusion await: store the result, or record null in
\* window.imuFusionData on failure; the loop goes on to its next await.
PreStore ==
  /\ IsHead("pre", "fusion")
  /\ LET t == Head(mq)
     IN /\ IF t.res # Failed
           THEN /\ imuFusionData' = [imuFusionData EXCEPT ![t.idx] = t.res]
                /\ fusionCacheByImu' = [fusionCacheByImu EXCEPT ![t.idx] = t.res]
           ELSE /\ imuFusionData' = [imuFusionData EXCEPT ![t.idx] = Null]
                /\ fusionCacheByImu' = fusionCacheByImu
        /\ bgFailed' = IF t.res # Failed THEN bgFailed
                       ELSE [ever |-> bgFailed.ever \cup {<<t.sess, t.idx>>},
                             run  |-> bgFailed.run \cup {<<t.sess, t.idx>>}]
        /\ mq' = PreAdvance(t, LoopNext(t), imuFusionData', Tail(mq))
  /\ dispatched' = << >>
  /\ lastOp' = "PreStore"
  /\ UNCHANGED << libIn, libOut, rt, uploadState >>
  /\ UNCHANGED << activeSession, depsLoaded, fusionState, depsWaiters, fusionWaiters,
                  selectedImuIndex, lastSessionForSelector, selectorSession,
                  lastPrecomputeSession, imuRows, runtimeFusion,
                  cursorVars, syncVars, videoT >>
  /\ armSelect' = IF NextIdx(Head(mq).sess, LoopNext(Head(mq)), imuFusionData') = -1
                  THEN populateSelectors(getSessionImuList(Head(mq).sess))
                  ELSE armSelect
  /\ UNCHANGED << analyserImus, armAngles, armResults >>

\* ------------------------------------------------------------------
\* Initial state: the viewer page has been wired, the session store holds
\* Sessions, the first refresh() has run up to renderImu's dependency await,
\* and the IMU panel's scripts are still loading.
\* ------------------------------------------------------------------
Init ==
  /\ activeSession \in Sessions \cup {NoSession}
  /\ depsLoaded = FALSE
  /\ fusionState = "absent"
  /\ mq = << >>
  /\ depsWaiters = << NewRender(activeSession, "refresh") >>
  /\ fusionWaiters = << >>
  /\ selectedImuIndex = 0
  /\ lastSessionForSelector = NoSession
  /\ selectorSession = Null
  /\ lastPrecomputeSession = NoSession
  /\ imuRows = Null
  /\ fusionCacheByImu = [i \in ImuIdx |-> Null]
  /\ imuFusionData = [i \in ImuIdx |-> Null]
  /\ runtimeFusion = Null
  /\ imuCursor = [x |-> 0, minX |-> 0, maxX |-> 0]
  /\ imuFullRangeMaxX = 0
  /\ imuMarker = Null
  /\ imuTimeframe = [t1 |-> Null, t2 |-> Null, active |-> FALSE, start |-> 0, end |-> 0]
  /\ tsState = [videoMarkerT |-> Null, offset |-> Null, t1 |-> Null, t2 |-> Null]
  /\ followVideo = FALSE
  /\ toggleEnabled = FALSE
  /\ timeSyncOffset = Null
  /\ videoT = 0
  /\ seekedPending = FALSE
  /\ armSelect = [shoulder |-> Null, elbow |-> Null, wrist |-> Null]
  /\ analyserImus = Null
  /\ armAngles = Null
  /\ libIn = Null
  /\ libOut = Null
  /\ rt = Null
  /\ uploadState = Null
  /\ armResults = Null
  /\ dispatched = << >>
  /\ bgFailed = [ever |-> {}, run |-> {}]
  /\ lastOp = "init"

Next ==
  \/ \E s \in Sessions : SelectSession(s)
  \/ \E i \in ImuIdx : TabClick(i)
  \/ DepsLoad
  \/ FusionLoad
  \/ RenderSync
  \/ RenderFusion
  \/ RenderStore
  \/ PreDeps
  \/ PreLoop
  \/ PreStore

Spec == Init /\ [][Next]_vars

\* ------------------------------------------------------------------
\* Time-sync panel buttons, IMU cursor slider, video playhead
\* ------------------------------------------------------------------
\* what a synchronous handler leaves alone
HandlerFrame ==
  /\ bgFailed' = bgFailed
  /\ UNCHANGED armVars
  /\ UNCHANGED << libIn, libOut, rt, uploadState >>
  /\ UNCHANGED << activeSession, loopVars, fusionVars >>

MarkVideo ==
  /\ mq = << >>
  /\ Commit(markVideo(World))
  /\ lastOp' = "MarkVideo"
  /\ HandlerFrame

MarkImu ==
  /\ mq = << >>
  /\ Commit(markImu(World))
  /\ lastOp' = "MarkImu"
  /\ HandlerFrame

ComputeOffset ==
  /\ mq = << >>
  /\ Commit(computeOffset(World))
  /\ lastOp' = IF followVideo THEN "ComputeOffsetWhileFollowing" ELSE "ComputeOffset"
  /\ HandlerFrame

ClearAll ==
  /\ mq = << >>
  /\ Commit(clearAll(World))
  /\ lastOp' = "ClearAll"
  /\ HandlerFrame

\* Follow video / Manual buttons; a disabled button gets no click
FollowClick(f) ==
  /\ mq = << >>
  /\ toggleEnabled
  /\ Commit(setFollowVideoMode(World, f))
  /\ lastOp' = "FollowClick"
  /\ HandlerFrame

\* the IMU cursor slider's input event
SliderInput(x) ==
  /\ mq = << >>
  /\ x \in imuCursor.minX .. imuCursor.maxX
  /\ Commit(setImuCursorX(World, x, FALSE))
  /\ lastOp' = "SliderInput"
  /\ HandlerFrame

VideoTimeUpdateUnsuppressed(v) ==
  /\ mq = << >>
  /\ v \in 0 .. MaxVideoT
  /\ Commit(LET w == [World EXCEPT !.video = v]
            IN IF ~canFollow(w) THEN w
               ELSE setImuCursorX(w, w.video - Val(w.cache), FALSE))
  /\ lastOp' = "VideoTimeUpdate"
  /\ HandlerFrame

\* the video's timeupdate / seeked event with the playhead at v
VideoTimeUpdate(v) ==
  /\ mq = << >>
  /\ v \in 0 .. MaxVideoT
  /\ Commit(pushVideoTimeToImu([World EXCEPT !.video = v]))
  /\ lastOp' = "VideoTimeUpdate"
  /\ HandlerFrame

\* delivery of the seeked/timeupdate event of a playhead write made by the
\* IMU -> VIDEO listener: pushVideoTimeToImu runs with the playhead as written
VideoSeeked ==
  /\ mq = << >>
  /\ seekedPending
  /\ Commit(pushVideoTimeToImu([World EXCEPT !.seeked = FALSE]))
  /\ lastOp' = "VideoSeeked"
  /\ HandlerFrame

MarkT1 ==
  /\ mq = << >>
  /\ Commit(markT1(World))
  /\ lastOp' = "MarkT1"
  /\ HandlerFrame

MarkT2 ==
  /\ mq = << >>
  /\ Commit(markT2(World))
  /\ lastOp' = "MarkT2"
  /\ HandlerFrame

ResetT1T2 ==
  /\ mq = << >>
  /\ Commit(resetT1T2(World))
  /\ lastOp' = "ResetT1T2"
  /\ HandlerFrame

\* the Apply button is disabled unless canApplyTimeframe() held at the last
\* render() of the panel; a click that gets through runs applyTimeframe
ApplyTimeframe ==
  /\ mq = << >>
  /\ Commit(applyTimeframe(World))
  /\ lastOp' = "ApplyTimeframe"
  /\ HandlerFrame

\* The time-sync behaviour is explored over two of the sessions.
SyncSessions == {"A", "C"}

InitSync == Init /\ activeSession \in SyncSessions

NextSync ==
  \/ \E s \in SyncSessions : SelectSession(s)
  \/ DepsLoad
  \/ FusionLoad
  \/ RenderSync
  \/ RenderFusion
  \/ RenderStore
  \/ PreDeps
  \/ PreLoop
  \/ PreStore
  \/ MarkVideo
  \/ MarkImu
  \/ ComputeOffset
  \/ ClearAll
  \/ \E f \in BOOLEAN : FollowClick(f)
  \/ \E x \in 0 .. MaxVideoT : SliderInput(x)
  \/ \E v \in 0 .. MaxVideoT : VideoTimeUpdate(v)
  \/ VideoSeeked

SpecSync == InitSync /\ [][NextSync]_vars

\* The cursor range: T1/T2 marking, Apply, Reset, together with the time-sync
\* handlers and session changes.  The user acts here only while no script
\* load is awaited (SpecSync covers handlers that run during the loads), and
\* the video is paused: its playhead moves only when the IMU -> VIDEO listener
\* writes it.
UserFrame ==
  \/ \E s \in SyncSessions : SelectSession(s)
  \/ MarkVideo
  \/ MarkImu
  \/ ComputeOffset
  \/ ClearAll
  \/ \E f \in BOOLEAN : FollowClick(f)
  \/ \E x \in 0 .. MaxVideoT : SliderInput(x)
  \/ VideoSeeked
  \/ MarkT1
  \/ MarkT2
  \/ ResetT1T2
  \/ ApplyTimeframe

NextFrame ==
  \/ DepsLoad
  \/ FusionLoad
  \/ RenderSync
  \/ RenderFusion
  \/ RenderStore
  \/ PreDeps
  \/ PreLoop
  \/ PreStore
  \/ (Quiescent /\ UserFrame)

SpecFrame == InitSync /\ [][NextFrame]_vars

\* The cursor range across IMU tab switches: one session with several IMUs,
\* its tabs, and the T1/T2 buttons and the cursor slider, used while no
\* script load is awaited.
UserTab ==
  \/ \E x \in 0 .. MaxVideoT : SliderInput(x)
  \/ MarkT1
  \/ MarkT2
  \/ ResetT1T2
  \/ ApplyTimeframe

NextTab ==
  \/ \E i \in ImuIdx : TabClick(i)
  \/ DepsLoad
  \/ FusionLoad
  \/ RenderSync
  \/ RenderFusion
  \/ RenderStore
  \/ PreDeps
  \/ PreLoop
  \/ PreStore
  \/ (Quiescent /\ UserTab)

InitTab == Init /\ activeSession = "A"

SpecTab == InitTab /\ [][NextTab]_vars

\* ------------------------------------------------------------------
\* Arm angle analysis (movenet.js): ArmAngleUI and ArmAngleAnalyser.
\* A FusionResult << rowsCsv, timesCsv >> stands for
\*   orientations: one sample per row of rowsCsv,
\*   times:        the time column of timesCsv.
\* ------------------------------------------------------------------
\* rows of a CSV: one per second from 0 to its last time stamp
CsvRowCount(csv) ==
  IF csv # Null /\ CsvKind(csv[1], csv[2]) \in {"ok", "bad"}
  THEN CsvMaxT(csv[1], csv[2]) + 1 ELSE 0

\* atan2(0, c) in quarter turns
atan2Zero(c) == IF c > 0 THEN 0 ELSE 2

\* quaternionToEuler for quaternions whose sine terms vanish; angles are
\* kept in quarter turns (pi/2)
quaternionToEuler(q) ==
  [roll  |-> atan2Zero(1 - 2 * (q[2] * q[2] + q[3] * q[3])),
   pitch |-> 0,
   yaw   |-> atan2Zero(1 - 2 * (q[3] * q[3] + q[4] * q[4]))]

\* the filter's quaternion for row k of a CSV: a unit quaternion [w, x, y, z]
filterQuaternion(csv, k) ==
  LET j == (csv[2] + k + (IF csv[1] = "D" THEN 2 ELSE 0)) % 4
  IN CASE j = 0 -> << 1, 0, 0, 0 >>
       [] j = 1 -> << 0, 1, 0, 0 >>
       [] j = 2 -> << 0, 0, 1, 0 >>
       [] OTHER -> << -1, 0, 0, 0 >>

\* fusionData.orientations and fusionData.times of a FusionResult
orientations(r) ==
  [k \in 1 .. CsvRowCount(r[1]) |->
     [quat |-> filterQuaternion(r[1], k),
      euler |-> quaternionToEuler(filterQuaternion(r[1], k))]]
times(r) == [k \in 1 .. CsvRowCount(r[2]) |-> k - 1]

\* Quat.conjugate, Quat.multiply, Quat.canonicalize
conjugate(q) == << q[1], -q[2], -q[3], -q[4] >>
multiply(a, b) ==
  << a[1] * b[1] - a[2] * b[2] - a[3] * b[3] - a[4] * b[4],
     a[1] * b[2] + a[2] * b[1] + a[3] * b[4] - a[4] * b[3],
     a[1] * b[3] - a[2] * b[4] + a[3] * b[1] + a[4] * b[2],
     a[1] * b[4] + a[2] * b[3] - a[3] * b[2] + a[4] * b[1] >>
canonicalize(q) == IF q[1] < 0 THEN << -q[1], -q[2], -q[3], -q[4] >> ELSE q

\* rad2deg, for an angle in quarter turns
rad2deg(r) == r * 90

\* 2 * Math.acos(w) in quarter turns, for w in {-1, 0, 1}
twiceAcos(w) == IF w = 1 THEN 0 ELSE IF w = 0 THEN 2 ELSE 4

\* Quat.relativeAngleDeg(qA, qB)
relativeAngleDeg(qA, qB) ==
  LET a == canonicalize(qA)
      b == canonicalize(qB)
      qRel == multiply(b, conjugate(a))
  IN rad2deg(twiceAcos(clamp(qRel[1], -1, 1)))

computeWristFromShoulder(s, e, w) ==
  LET n == Min(Min(Len(orientations(s)), Len(orientations(e))),
               Min(Len(orientations(w)), Len(times(s))))
  IN IF ~(n > 0) THEN Null
     ELSE Some([elbow |-> [i \in 1 .. n |->
                  relativeAngleDeg(orientations(s)[i].quat, orientations(e)[i].quat)],
                wrist |-> [i \in 1 .. n |->
                  relativeAngleDeg(orientations(s)[i].quat, orientations(w)[i].quat)],
                shoulder |-> [i \in 1 .. n |->
                  [pitch |-> rad2deg(orientations(s)[i].euler.pitch),
                   roll  |-> rad2deg(orientations(s)[i].euler.roll),
                   yaw   |-> rad2deg(orientations(s)[i].euler.yaw)]],
                times |-> SubSeq(times(s), 1, n)])

\* ArmAngleAnalyser.#compute: Null when an assert throws, else the new #angles
compute(s, e, w) ==
  LET n == Min(Min(Len(orientations(s)), Len(orientations(e))),
               Min(Len(orientations(w)), Len(times(s))))
  IN IF ~(n > 0) THEN Null
     ELSE Some([elbow |-> [i \in 1 .. n |->
                  relativeAngleDeg(orientations(s)[i].quat, orientations(e)[i].quat)],
                wrist |-> [i \in 1 .. n |->
                  relativeAngleDeg(orientations(e)[i].quat, orientations(w)[i].quat)],
                shoulder |-> [i \in 1 .. n |->
                  [pitch |-> rad2deg(orientations(s)[i].euler.pitch),
                   roll  |-> rad2deg(orientations(s)[i].euler.roll),
                   yaw   |-> rad2deg(orientations(s)[i].euler.yaw)]],
                times |-> SubSeq(times(s), 1, n)])

\* statsOf(arr); the mean is kept as sum and count, and is NaN for no samples
NaN == "NaN"
RECURSIVE SumOf(_)
SumOf(arr) == IF arr = << >> THEN 0 ELSE Head(arr) + SumOf(Tail(arr))
statsOf(arr) ==
  IF Len(arr) = 0
  THEN [sum |-> NaN, count |-> 0, min |-> NaN, max |-> NaN, range |-> NaN]
  ELSE LET lo == CHOOSE v \in {arr[i] : i \in 1 .. Len(arr)} :
                   \A i \in 1 .. Len(arr) : v <= arr[i]
           hi == CHOOSE v \in {arr[i] : i \in 1 .. Len(arr)} :
                   \A i \in 1 .. Len(arr) : v >= arr[i]
       IN [sum |-> SumOf(arr), count |-> Len(arr), min |-> lo, max |-> hi,
           range |-> hi - lo]

\* getStatistics() of the angles a
getStatistics(a) == [elbow |-> statsOf(a.elbow), wrist |-> statsOf(a.wrist)]

allDifferentOrNot(s, e, w) == TRUE

\* new Set([sIdx, eIdx, wIdx]).size === 3
allDifferent(s, e, w) == Cardinality({s, e, w}) = 3

\* the assert of calculate() / setImuData() that fails first, as the text of
\* its alert; << >> when none fails. window.imuFusionData without any key
\* gives the first of the two fusion messages, keys holding null the second.
CalculateFails(sel, fusion) ==
  LET s == sel.shoulder  e == sel.elbow  w == sel.wrist
  IN IF s = Null \/ e = Null \/ w = Null THEN {"Select three IMUs first."}
     ELSE IF ~allDifferent(Val(s), Val(e), Val(w))
          THEN {"Shoulder, elbow, wrist must be different IMUs."}
     ELSE IF \A i \in ImuIdx : fusion[i] = Null
          THEN {"No fusion data found.", "Shoulder IMU has no fusion data"}
     ELSE IF fusion[Val(s)] = Null THEN {"Shoulder IMU has no fusion data"}
     ELSE IF fusion[Val(e)] = Null THEN {"Elbow IMU has no fusion data"}
     ELSE IF fusion[Val(w)] = Null THEN {"Wrist IMU has no fusion data"}
     ELSE {}

\* a joint selector's change event: the value is one of the options filled in
\* for the session's IMUs, or "Select IMU..."
SelectorChange(role, v) ==
  /\ mq = << >>
  /\ IF v = Null THEN TRUE
     ELSE Val(v) \in ImuIdx /\ Val(v) < Len(getSessionImuList(activeSession))
  /\ armSelect[role] # v
  /\ armSelect' = [armSelect EXCEPT ![role] = v]
  /\ dispatched' = << >>
  /\ lastOp' = "SelectorChange"
  /\ UNCHANGED << libIn, libOut, rt, uploadState >>
  /\ bgFailed' = bgFailed
  /\ UNCHANGED << activeSession, loopVars, fusionVars, cursorVars, syncVars, videoT,
                  analyserImus, armAngles, armResults >>

\* ArmAngleUI.calculate(), with ArmAngleAnalyser.setImuData and #displayResults
Calculate ==
  /\ mq = << >>
  /\ LET fails == CalculateFails(armSelect, imuFusionData)
     IN IF fails # {}
        THEN /\ \E msg \in fails : dispatched' = << msg >>
             /\ UNCHANGED << analyserImus, armAngles, armResults >>
        ELSE LET sData == imuFusionData[Val(armSelect.shoulder)]
                 eData == imuFusionData[Val(armSelect.elbow)]
                 wData == imuFusionData[Val(armSelect.wrist)]
                 out   == compute(sData, eData, wData)
             IN /\ analyserImus' = Some([shoulder |-> sData, elbow |-> eData, wrist |-> wData])
                /\ IF out = Null
                   THEN /\ dispatched' = << "No samples available to compute angles." >>
                        /\ UNCHANGED << armAngles, armResults >>
                   ELSE /\ armAngles' = out
                        /\ armResults' = Some([angles |-> Val(out),
                                               stats |-> getStatistics(Val(out))])
                        /\ dispatched' = << >>
  /\ lastOp' = "Calculate"
  /\ UNCHANGED << libIn, libOut, rt, uploadState >>
  /\ bgFailed' = bgFailed
  /\ UNCHANGED << activeSession, loopVars, fusionVars, cursorVars, syncVars, videoT,
                  armSelect >>

\* FusionResults the pipeline can have left in slot i of window.imuFusionData:
\* orientations of IMU i of a session, with the time column of the rows the
\* panel held when the fusion was started: those of the IMU itself, of the
\* session's first IMU, or none (Null)
StoredResults ==
  UNION { { process(<< s, i >>, << s, i >>), process(<< s, i >>, << s, 0 >>),
            process(<< s, i >>, Null) } : s \in {"B", "D"}, i \in ImuIdx } \ {Failed}

\* The analysis is explored with the render pipeline at rest: session D, whose
\* three IMUs all have 9-DOF data, with its selectors filled in, over the
\* contents of window.imuFusionData that renders of sessions B and D can
\* leave behind.
InitArm ==
  /\ activeSession = "D"
  /\ depsLoaded = FALSE
  /\ fusionState = "absent"
  /\ mq = << >>
  /\ depsWaiters = << >>
  /\ fusionWaiters = << >>
  /\ selectedImuIndex = 0
  /\ lastSessionForSelector = NoSession
  /\ selectorSession = Null
  /\ lastPrecomputeSession = NoSession
  /\ imuRows = Null
  /\ fusionCacheByImu = [i \in ImuIdx |-> Null]
  /\ imuFusionData \in [ImuIdx -> StoredResults \cup {Null}]
  /\ \A i \in ImuIdx :
       IF imuFusionData[i] = Null THEN TRUE ELSE imuFusionData[i][1][2] = i
  /\ runtimeFusion = Null
  /\ imuCursor = [x |-> 0, minX |-> 0, maxX |-> 0]
  /\ imuFullRangeMaxX = 0
  /\ imuMarker = Null
  /\ imuTimeframe = [t1 |-> Null, t2 |-> Null, active |-> FALSE, start |-> 0, end |-> 0]
  /\ tsState = [videoMarkerT |-> Null, offset |-> Null, t1 |-> Null, t2 |-> Null]
  /\ followVideo = FALSE
  /\ toggleEnabled = FALSE
  /\ timeSyncOffset = Null
  /\ videoT = 0
  /\ seekedPending = FALSE
  /\ armSelect = populateSelectors(getSessionImuList(activeSession))
  /\ analyserImus = Null
  /\ armAngles = Null
  /\ libIn = Null
  /\ libOut = Null
  /\ rt = Null
  /\ uploadState = Null
  /\ armResults = Null
  /\ dispatched = << >>
  /\ bgFailed = [ever |-> {}, run |-> {}]
  /\ lastOp = "init"

NextArm ==
  \/ \E role \in {"shoulder", "elbow", "wrist"} :
       \E v \in {Null} \cup {Some(i) : i \in ImuIdx} : SelectorChange(role, v)
  \/ Calculate

SpecArm == InitArm /\ [][NextArm]_vars

\* ------------------------------------------------------------------
\* Helper functions called on their own: libIn holds the name of the
\* function and its arguments, libOut what the call returned or threw.
\* ------------------------------------------------------------------
Returned(v) == Some([threw |-> Null, value |-> v])
Threw(msg)  == Some([threw |-> Some(msg), value |-> Null])
Called(fn)  == libIn # Null /\ libIn[1] = fn /\ libOut # Null
Thrown      == Val(libOut).threw
Result      == Val(libOut).value

\* what a call leaves alone
LibFrame(fn) ==
  /\ libIn # Null /\ libIn[1] = fn
  /\ libOut = Null
  /\ lastOp' = fn
  /\ dispatched' = dispatched
  /\ bgFailed' = bgFailed
  /\ UNCHANGED << activeSession, loopVars, fusionVars, cursorVars, syncVars, videoT,
                  armVars, libIn, rt, uploadState >>

setImuDataUnasserted(s, e, w) ==
  LET out == compute(s, e, w)
      none == [elbow |-> << >>, wrist |-> << >>, shoulder |-> << >>, times |-> << >>]
  IN IF out = Null
     THEN Returned([angles |-> none, stats |-> getStatistics(none)])
     ELSE Returned([angles |-> Val(out), stats |-> getStatistics(Val(out))])

\* ArmAngleAnalyser.setImuData(...) followed by getStatistics()
setImuData(s, e, w) ==
  LET out == compute(s, e, w)
  IN IF out = Null
     THEN Threw("No samples available to compute angles.")
     ELSE Returned([angles |-> Val(out), stats |-> getStatistics(Val(out))])

\* FusionProcessor.findAxisKeys: the header spellings tried for an axis of a
\* sensor, in the order they are tried (headers are compared normalised)
candidates(sensor, axis) ==
  CASE sensor = "acc"  /\ axis = "x" -> << "acc_x", "accel_x", "ax", "accelerometer_x", "accx" >>
    [] sensor = "acc"  /\ axis = "y" -> << "acc_y", "accel_y", "ay", "accelerometer_y", "accy" >>
    [] sensor = "acc"  /\ axis = "z" -> << "acc_z", "accel_z", "az", "accelerometer_z", "accz" >>
    [] sensor = "gyro" /\ axis = "x" -> << "gyro_x", "gx", "gyroscope_x", "gyrox" >>
    [] sensor = "gyro" /\ axis = "y" -> << "gyro_y", "gy", "gyroscope_y", "gyroy" >>
    [] sensor = "gyro" /\ axis = "z" -> << "gyro_z", "gz", "gyroscope_z", "gyroz" >>
    [] sensor = "mag"  /\ axis = "x" -> << "mag_x", "mx", "magnetometer_x", "magx" >>
    [] sensor = "mag"  /\ axis = "y" -> << "mag_y", "my", "magnetometer_y", "magy" >>
    [] sensor = "mag"  /\ axis = "z" -> << "mag_z", "mz", "magnetometer_z", "magz" >>

\* findAxisKeys: for each axis normHeaders.indexOf(c) of the first candidate
\* found among the headers, else null
findAxisKeys(headers, sensor) ==
  LET findIndex(axis) ==
        LET cs   == candidates(sensor, axis)
            hits == { k \in 1 .. Len(cs) : \E i \in 1 .. Len(headers) : headers[i] = cs[k] }
        IN IF hits = {} THEN Null
           ELSE LET k  == CHOOSE h \in hits : \A g \in hits : h <= g
                    at == { i \in 1 .. Len(headers) : headers[i] = cs[k] }
                IN Some((CHOOSE i \in at : \A j \in at : i <= j) - 1)
  IN [x |-> findIndex("x"), y |-> findIndex("y"), z |-> findIndex("z")]

hasAxisDataAnyAxis(headers, sensor) ==
  LET keys == findAxisKeys(headers, sensor)
  IN keys.x # Null \/ keys.y # Null \/ keys.z # Null

hasAxisData(headers, sensor) ==
  LET keys == findAxisKeys(headers, sensor)
  IN keys.x # Null /\ keys.y # Null /\ keys.z # Null

\* FusionProcessor.createFilter; lib is the set of constructors the AHRS
\* script has defined
createFilter(algorithm, lib) ==
  IF "Madgwick" \notin lib
  THEN Threw("AHRS library not loaded. Add ahrs_min.js to your project")
  ELSE CASE algorithm = "madgwick" -> Returned("Madgwick")
         [] algorithm = "mahony" ->
              IF "Mahony" \in lib THEN Returned("Mahony")
              ELSE Threw("ReferenceError: Mahony is not defined")
         [] algorithm = "complementary" -> Returned("Madgwick")
         [] OTHER -> Threw("Unknown algorithm")

\* FusionProcessor.process(options), options being
\* [rows, headers, timeSeconds, algorithm] and the constructors defined
processOptions(o) ==
  IF Len(o.rows) = 0 THEN Threw("No IMU data to process")
  ELSE IF ~ (hasAxisData(o.headers, "acc") /\ hasAxisData(o.headers, "gyro")
             /\ hasAxisData(o.headers, "mag"))
  THEN Threw("9-DOF data required (acc + gyro + mag)")
  ELSE LET filter == createFilter(o.algorithm, o.lib)
       IN IF Val(filter).threw # Null THEN filter
          ELSE Returned([times |-> o.timeSeconds,
                         orientations |->
                           [i \in 1 .. Len(o.rows) |->
                              [row |-> o.rows[i], filter |-> Val(filter).value]],
                         algorithm |-> o.algorithm])

\* headers of a 9-DOF CSV, and the same with one column missing
FullHeaders ==
  << "time", "acc_x", "acc_y", "acc_z", "gx", "gy", "gz", "mag_x", "mag_y", "mag_z" >>
WithoutColumn(headers, k) ==
  [i \in 1 .. (Len(headers) - 1) |-> IF i < k THEN headers[i] ELSE headers[i + 1]]

\* nearestIndex(times, x): the binary search, indices counted from 0;
\* the loop ends with hi < lo and yields << hi, lo >>, or finds x at mid
RECURSIVE searchLoop(_, _, _, _)
searchLoop(ts, x, lo, hi) ==
  IF ~ (lo <= hi) THEN << hi, lo >>
  ELSE LET mid == (lo + hi) \div 2
           v   == ts[mid + 1]
       IN IF v = x THEN << mid, mid >>
          ELSE IF v < x THEN searchLoop(ts, x, mid + 1, hi)
          ELSE searchLoop(ts, x, lo, mid - 1)

Abs(n) == IF n < 0 THEN -n ELSE n

nearestIndexBelow(ts, x) ==
  IF Len(ts) = 0 THEN -1
  ELSE IF x <= ts[1] THEN 0
  ELSE IF x >= ts[Len(ts)] THEN Len(ts) - 1
  ELSE Min(searchLoop(ts, x, 0, Len(ts) - 1)[1],
           searchLoop(ts, x, 0, Len(ts) - 1)[2])

nearestIndex(ts, x) ==
  IF Len(ts) = 0 THEN -1
  ELSE IF x <= ts[1] THEN 0
  ELSE IF x >= ts[Len(ts)] THEN Len(ts) - 1
  ELSE LET ab == searchLoop(ts, x, 0, Len(ts) - 1)
           a  == ab[1]
           b  == ab[2]
       IN IF a = b THEN a
          ELSE IF a < 0 THEN b
          ELSE IF b >= Len(ts) THEN a
          ELSE IF Abs(ts[b + 1] - x) < Abs(ts[a + 1] - x) THEN b ELSE a

\* ascending time arrays of up to MaxSamples samples with times 0 .. MaxTime
MaxSamples == 4
MaxTime    == 5

\* downsampleXY: Math.ceil(n / maxPoints); Infinity (here n: past the end
\* after the first point) when maxPoints is 0
strideFloor(n, maxPoints) == IF maxPoints = 0 THEN n ELSE n \div maxPoints
strideOf(n, maxPoints) ==
  IF maxPoints = 0 THEN n ELSE (n + maxPoints - 1) \div maxPoints

\* for (let i = 0; i < n; i += step) out.push({ x: ts[i], y: values[i] })
RECURSIVE pushEvery(_, _, _, _, _)
pushEvery(ts, values, n, step, i) ==
  IF ~ (i < n) THEN << >>
  ELSE << [x |-> ts[i + 1], y |-> values[i + 1]] >>
       \o pushEvery(ts, values, n, step, i + step)

downsampleXY(ts, values, maxPoints) ==
  LET n == Min(Len(ts), Len(values))
  IN IF n <= maxPoints THEN pushEvery(ts, values, n, 1, 0)
     ELSE pushEvery(ts, values, n, strideOf(n, maxPoints), 0)

\* ------------------------------------------------------------------
\* Time-base normalisation (session-viewer-controller.js).
\* A time column is given as runs [v, n] of n consecutive rows holding the
\* same entry v: Some(k), k a whole number of the column's unit 10^unit, or
\* Null for an entry Number() does not turn into a finite number. Numbers that are not whole
\* are kept exact: << m, e >> is m * 10^e, [m, e, div] is m * 10^e / div.
\* ------------------------------------------------------------------
RECURSIVE Pow10(_)
Pow10(d) == IF d = 0 THEN 1 ELSE 10 * Pow10(d - 1)

\* a <= b for a = << m, e >>, b = << m, e >> with 0 <= m < 10^5
DecLeq(a, b) ==
  IF a[1] = 0 THEN TRUE
  ELSE IF b[1] = 0 THEN FALSE
  ELSE IF a[2] >= b[2]
  THEN IF a[2] - b[2] > 5 THEN FALSE ELSE a[1] * Pow10(a[2] - b[2]) <= b[1]
  ELSE IF b[2] - a[2] > 5 THEN TRUE ELSE a[1] <= b[1] * Pow10(b[2] - a[2])

\* `i < 201`: only rows with an index below this contribute a delta
DeltaWindow == 201

\* the first loop of detectTimeScaleFactor, a run at a time; i is the index
\* of the run's first row. Within a run the deltas are 0 and are not pushed.
RECURSIVE scanRuns(_, _, _, _)
scanRuns(runs, j, i, st) ==
  IF j > Len(runs) THEN st
  ELSE LET r == runs[j]
       IN IF r.v = Null THEN scanRuns(runs, j + 1, i + r.n, st)
          ELSE scanRuns(runs, j + 1, i + r.n,
                 [prev       |-> r.v,
                  firstVal   |-> IF st.firstVal = Null THEN r.v ELSE st.firstVal,
                  lastVal    |-> r.v,
                  validCount |-> st.validCount + r.n,
                  dts        |-> IF st.prev # Null /\ i < DeltaWindow
                                    /\ Val(r.v) - Val(st.prev) > 0
                                 THEN Append(st.dts, Val(r.v) - Val(st.prev))
                                 ELSE st.dts])

scanColumn(runs) ==
  scanRuns(runs, 1, 0, [prev |-> Null, firstVal |-> Null, lastVal |-> Null,
                        validCount |-> 0, dts |-> << >>])

\* dts.sort(...)[Math.floor(dts.length / 2)]
medianOf(dts) ==
  LET mid == Len(dts) \div 2
  IN CHOOSE x \in { dts[i] : i \in 1 .. Len(dts) } :
       /\ Cardinality({ i \in 1 .. Len(dts) : dts[i] < x }) <= mid
       /\ Cardinality({ i \in 1 .. Len(dts) : dts[i] <= x }) > mid

\* the two tests on the candidate scale 10^-exp: dtSec within [0.0005, 2]
\* and validCount / durSec within [1, 500]
candidateOk(exp, medianDt, rawSpan, validCount, unit) ==
  /\ DecLeq(<< 5, -4 >>, << medianDt, unit - exp >>)
  /\ DecLeq(<< medianDt, unit - exp >>, << 2, 0 >>)
  /\ DecLeq(<< rawSpan, unit - exp >>, << validCount, 0 >>)
  /\ DecLeq(<< validCount, 0 >>, << 500 * rawSpan, unit - exp >>)

tryScalesLast(exp, medianDt, rawSpan, validCount, unit) ==
  LET ok == { x \in -3 .. exp : candidateOk(x, medianDt, rawSpan, validCount, unit) }
  IN IF ok = {} THEN [m |-> 1, e |-> -2 - unit, div |-> medianDt]
     ELSE [m |-> 1, e |-> -(CHOOSE x \in ok : \A y \in ok : x <= y), div |-> 1]

\* for (let exp = 9; exp >= -3; exp--) ...; then the fallback 0.01 / medianDt
RECURSIVE tryScales(_, _, _, _, _)
tryScales(exp, medianDt, rawSpan, validCount, unit) ==
  IF ~ (exp >= -3) THEN [m |-> 1, e |-> -2 - unit, div |-> medianDt]
  ELSE IF candidateOk(exp, medianDt, rawSpan, validCount, unit)
  THEN [m |-> 1, e |-> -exp, div |-> 1]
  ELSE tryScales(exp - 1, medianDt, rawSpan, validCount, unit)

One == [m |-> 1, e |-> 0, div |-> 1]

detectTimeScaleFactor(runs, unit) ==
  LET st == scanColumn(runs)
  IN IF Len(st.dts) = 0 \/ st.firstVal = Null \/ st.lastVal = Null THEN One
     ELSE IF Val(st.lastVal) - Val(st.firstVal) <= 0 THEN One
     ELSE tryScales(9, medianOf(st.dts), Val(st.lastVal) - Val(st.firstVal),
                    st.validCount, unit)

rebaseNot(tRaw, t0Raw) == tRaw

\* tRebasedRaw = tRaw - t0Raw
rebase(tRaw, t0Raw) == tRaw - t0Raw

\* largest of 0 and the rebased finite entries
maxRebased(runs, t0Raw) ==
  LET vals == {0} \cup { rebase(Val(runs[j].v), t0Raw) :
                              j \in { k \in 1 .. Len(runs) : runs[k].v # Null } }
  IN CHOOSE x \in vals : \A y \in vals : y <= x

\* the number a row's time entry spells: Null when it is not finite
entryValue(v, unit) ==
  IF v = Null THEN Null ELSE Some([m |-> Val(v), e |-> unit, div |-> 1])

\* normalizeTimeColumnInPlace(rows, timeIdx) for a column that exists:
\* the rows as they are afterwards, and the object returned. A rewritten
\* entry holds String(tScaled), kept here as the number it spells.
normalizeTimeColumnInPlace(runs, unit) ==
  IF Len(runs) = 0 \/ runs[1].v = Null
  THEN [rows |-> [j \in 1 .. Len(runs) |->
                    [value |-> entryValue(runs[j].v, unit), n |-> runs[j].n,
                     rewritten |-> FALSE]],
        info |-> [t0 |-> Null, maxT |-> Some([m |-> 0, e |-> 0, div |-> 1]),
                  t0Raw |-> Null, maxTRaw |-> 0, scale |-> Null]]
  ELSE LET t0Raw == Val(runs[1].v)
           scale == detectTimeScaleFactor(runs, unit)
       IN [rows |-> [j \in 1 .. Len(runs) |->
                       IF runs[j].v = Null
                       THEN [value |-> Null, n |-> runs[j].n, rewritten |-> FALSE]
                       ELSE [value |-> Some([m   |-> rebase(Val(runs[j].v), t0Raw) * scale.m,
                                             e   |-> scale.e + unit,
                                             div |-> scale.div]),
                             n |-> runs[j].n,
                             rewritten |-> TRUE]],
           info |-> [t0 |-> Some(0),
                     maxT |-> Some([m |-> maxRebased(runs, t0Raw) * scale.m,
                                    e |-> scale.e + unit, div |-> scale.div]),
                     t0Raw |-> Some(t0Raw),
                     maxTRaw |-> maxRebased(runs, t0Raw),
                     scale |-> Some(scale)]]

\* time columns of up to MaxRuns runs, with entries 0 .. MaxStamp or not
\* finite
MaxRuns  == 3
MaxStamp == 2

\* No call made yet; the calls explored. Quaternions are the unit
\* quaternions [w, x, y, z] along one axis. The analyser is handed
\* FusionResults of session B: orientations of a CSV (two rows, none, three
\* rows) with its own time column, or those of the third with the time column
\* of the second. The estimator gets 0 .. 2 rows under the full header row or
\* one with a column missing. Time arrays are ascending. Chart series have
\* times 0, 1, 2, ... and values that tell the points apart. The joint
\* selectors are refilled for up to two IMUs with or without a skeleton node,
\* libIn[3] being what the three selectors showed before. Time columns
\* begin with a run of 1 or DeltaWindow rows, go on with single rows and
\* come in units of 10^-3, 1, 10^3 and 10^12.
InitLib ==
  /\ activeSession = NoSession
  /\ depsLoaded = FALSE
  /\ fusionState = "absent"
  /\ mq = << >>
  /\ depsWaiters = << >>
  /\ fusionWaiters = << >>
  /\ selectedImuIndex = 0
  /\ lastSessionForSelector = NoSession
  /\ selectorSession = Null
  /\ lastPrecomputeSession = NoSession
  /\ imuRows = Null
  /\ fusionCacheByImu = [i \in ImuIdx |-> Null]
  /\ imuFusionData = [i \in ImuIdx |-> Null]
  /\ runtimeFusion = Null
  /\ imuCursor = [x |-> 0, minX |-> 0, maxX |-> 0]
  /\ imuFullRangeMaxX = 0
  /\ imuMarker = Null
  /\ imuTimeframe = [t1 |-> Null, t2 |-> Null, active |-> FALSE, start |-> 0, end |-> 0]
  /\ tsState = [videoMarkerT |-> Null, offset |-> Null, t1 |-> Null, t2 |-> Null]
  /\ followVideo = FALSE
  /\ toggleEnabled = FALSE
  /\ timeSyncOffset = Null
  /\ videoT = 0
  /\ seekedPending = FALSE
  /\ armSelect = [shoulder |-> Null, elbow |-> Null, wrist |-> Null]
  /\ analyserImus = Null
  /\ armAngles = Null
  /\ armResults = Null
  /\ LET AnalyserInputs ==
           { << << "B", i >>, << "B", i >> >> : i \in 0 .. 2 }
           \cup { << << "B", 2 >>, << "B", 1 >> >> }
         UnitQuats ==
           { q \in [1 .. 4 -> {-1, 0, 1}] :
               q[1] * q[1] + q[2] * q[2] + q[3] * q[3] + q[4] * q[4] = 1 }
         AscendingTimes ==
           UNION { { t \in [1 .. n -> 0 .. MaxTime] :
                       \A i \in 1 .. (n - 1) : t[i] <= t[i + 1] } : n \in 0 .. MaxSamples }
         SkeletonNodes == {"", "left_shoulder", "right_elbow", "left_wrist", "left_hip"}
         TimeColumns ==
           UNION { { [j \in 1 .. k |-> [v |-> vs[j], n |-> IF j = 1 THEN n1 ELSE 1]] :
                       vs \in [1 .. k -> { Some(t) : t \in 0 .. MaxStamp } \cup {Null}],
                       n1 \in {1, DeltaWindow} } : k \in 0 .. MaxRuns }
     IN libIn \in UNION {
          { << "setImuData", s, e, w >> :
              s \in AnalyserInputs, e \in AnalyserInputs, w \in AnalyserInputs },
          { << "relativeAngleDeg", qA, qB >> : qA \in UnitQuats, qB \in UnitQuats },
          { << "process", [rows |-> [i \in 1 .. n |-> i], headers |-> h,
                           timeSeconds |-> [i \in 1 .. n |-> i - 1],
                           algorithm |-> a, lib |-> l] >> :
              n \in 0 .. 2,
              h \in {FullHeaders}
                    \cup { WithoutColumn(FullHeaders, k) : k \in 1 .. Len(FullHeaders) },
              a \in {"madgwick", "mahony", "complementary", "kalman"},
              l \in { {}, {"Madgwick"}, {"Madgwick", "Mahony"} } },
          { << "nearestIndex", t, x >> : t \in AscendingTimes, x \in -1 .. (MaxTime + 1) },
          { << "downsampleXY", [i \in 1 .. lt |-> i - 1], [i \in 1 .. lv |-> 10 * i], m >> :
              lt \in 0 .. (MaxSamples + 2), lv \in 0 .. (MaxSamples + 2),
              m \in 0 .. (MaxSamples + 3) },
          { << fn, c, u >> :
              fn \in {"detectTimeScaleFactor", "normalizeTimeColumnInPlace"},
              c \in TimeColumns, u \in {-3, 0, 3, 12} },
          { << "populateSelectors", imuList, before >> :
              imuList \in UNION { [1 .. n -> [skeletonNode : SkeletonNodes]] : n \in 0 .. 2 },
              before \in [{"shoulder", "elbow", "wrist"} -> {Null, Some(0), Some(1)}] } }
  /\ libOut = Null
  /\ rt = Null
  /\ uploadState = Null
  /\ dispatched = << >>
  /\ bgFailed = [ever |-> {}, run |-> {}]
  /\ lastOp = "init"

NextLib ==
  \/ /\ LibFrame("setImuData")
     /\ libOut' = setImuData(libIn[2], libIn[3], libIn[4])
  \/ /\ LibFrame("relativeAngleDeg")
     /\ libOut' = Returned(relativeAngleDeg(libIn[2], libIn[3]))
  \/ /\ LibFrame("process")
     /\ libOut' = processOptions(libIn[2])
  \/ /\ LibFrame("nearestIndex")
     /\ libOut' = Returned(nearestIndex(libIn[2], libIn[3]))
  \/ /\ LibFrame("downsampleXY")
     /\ libOut' = Returned(downsampleXY(libIn[2], libIn[3], libIn[4]))
  \/ /\ LibFrame("detectTimeScaleFactor")
     /\ libOut' = Returned(detectTimeScaleFactor(libIn[2], libIn[3]))
  \/ /\ LibFrame("normalizeTimeColumnInPlace")
     /\ libOut' = Returned(normalizeTimeColumnInPlace(libIn[2], libIn[3]))
  \/ /\ LibFrame("populateSelectors")
     /\ libOut' = Returned(populateSelectors(libIn[2]))

SpecLib == InitLib /\ [][NextLib]_vars

\* ------------------------------------------------------------------
\* Session store (session-store.js) and upload page (upload.js).
\* A session is [id, videoFile, imus]; an IMU of the upload form is
\* [id, file, csvText] with file TRUE once a CSV file was read and csvText
\* the text read; one file is read at a time.
\* ------------------------------------------------------------------
MaxSessionId  == 2     \* ids the upload page hands out
MaxUploadImus == 1     \* IMUs added to the upload form between two resets

\* setSessions(sessions): the active session is dropped when no session of
\* the new list has its id
setSessions(r, sessions) ==
  [r EXCEPT !.sessions = sessions,
            !.activeSession =
               IF @ # Null /\ ~ \E k \in 1 .. Len(sessions) : sessions[k].id = Val(@).id
               THEN Null ELSE @]

\* setActiveSession(session): rt.activeSession = session || null
setActiveSession(r, session) == [r EXCEPT !.activeSession = session]

\* setActiveSessionById(id): rt.sessions.find(...) || null
setActiveSessionById(r, id) ==
  LET hits == { k \in 1 .. Len(r.sessions) : r.sessions[k].id = id }
  IN setActiveSession(r, IF hits = {} THEN Null
                         ELSE Some(r.sessions[CHOOSE k \in hits : \A j \in hits : k <= j]))

\* hydrateRuntimeFromDb
hydrateRuntimeFromDb(r) ==
  LET maxId == IF Len(r.sessions) = 0 THEN 0
               ELSE CHOOSE m \in { r.sessions[k].id : k \in 1 .. Len(r.sessions) } :
                      \A k \in 1 .. Len(r.sessions) : r.sessions[k].id <= m
  IN [r EXCEPT !.activeSession = IF Len(r.sessions) = 0 THEN Null ELSE @,
               !.nextSessionId = Max(@, maxId + 1)]

\* deleteSession(id)
deleteSession(r, id) ==
  LET kept == SelectSeq(r.sessions, LAMBDA s : s.id # id)
  IN [r EXCEPT !.sessions = kept,
               !.activeSession =
                  IF @ # Null /\ Val(@).id = id
                  THEN (IF Len(kept) > 0 THEN Some(kept[Len(kept)]) ELSE Null)
                  ELSE @]

\* hasSomethingToSave, with imusValid
hasSomethingToSave(st) ==
  LET imusValid == \A k \in 1 .. Len(st.imus) : st.imus[k].file
  IN st.video \/ (Len(st.imus) > 0 /\ imusValid)

\* resetAll
resetAll(st) == [st EXCEPT !.video = FALSE, !.imus = << >>, !.nextImuId = 1]

\* what a handler of the store or of the upload page leaves alone
StoreFrame ==
  /\ bgFailed' = bgFailed
  /\ UNCHANGED << activeSession, loopVars, fusionVars, cursorVars, syncVars, videoT,
                  armVars, libIn, libOut >>

\* No session saved yet, the upload form empty.
InitStore ==
  /\ activeSession = NoSession
  /\ depsLoaded = FALSE
  /\ fusionState = "absent"
  /\ mq = << >>
  /\ depsWaiters = << >>
  /\ fusionWaiters = << >>
  /\ selectedImuIndex = 0
  /\ lastSessionForSelector = NoSession
  /\ selectorSession = Null
  /\ lastPrecomputeSession = NoSession
  /\ imuRows = Null
  /\ fusionCacheByImu = [i \in ImuIdx |-> Null]
  /\ imuFusionData = [i \in ImuIdx |-> Null]
  /\ runtimeFusion = Null
  /\ imuCursor = [x |-> 0, minX |-> 0, maxX |-> 0]
  /\ imuFullRangeMaxX = 0
  /\ imuMarker = Null
  /\ imuTimeframe = [t1 |-> Null, t2 |-> Null, active |-> FALSE, start |-> 0, end |-> 0]
  /\ tsState = [videoMarkerT |-> Null, offset |-> Null, t1 |-> Null, t2 |-> Null]
  /\ followVideo = FALSE
  /\ toggleEnabled = FALSE
  /\ timeSyncOffset = Null
  /\ videoT = 0
  /\ seekedPending = FALSE
  /\ armSelect = [shoulder |-> Null, elbow |-> Null, wrist |-> Null]
  /\ analyserImus = Null
  /\ armAngles = Null
  /\ armResults = Null
  /\ libIn = Null
  /\ libOut = Null
  /\ rt = [sessions |-> << >>, activeSession |-> Null, nextSessionId |-> 1]
  /\ uploadState = [video |-> FALSE, imus |-> << >>, nextImuId |-> 1, reads |-> {}]
  /\ dispatched = << >>
  /\ bgFailed = [ever |-> {}, run |-> {}]
  /\ lastOp = "init"

\* saveSession, from the Save button, which syncButtons disables unless
\* hasSomethingToSave(); its `await saveRuntimeSession(session)` is the await
\* of a no-op, resumed before any other handler runs.
SaveSession ==
  /\ hasSomethingToSave(uploadState)
  /\ rt.nextSessionId <= MaxSessionId
  /\ LET session == [id |-> rt.nextSessionId, videoFile |-> uploadState.video,
                     imus |-> uploadState.imus]
     IN rt' = [sessions |-> Append(rt.sessions, session),
               activeSession |-> Some(session),
               nextSessionId |-> rt.nextSessionId + 1]
  /\ uploadState' = resetAll(uploadState)
  /\ dispatched' = << "sessions-changed", "active-session-changed" >>
  /\ lastOp' = "saveSession"
  /\ StoreFrame

\* The store's operations are called with the sessions the store holds or
\* held (a caller may keep a session it got from getSessions) and with a
\* video-only session made elsewhere; the sessions saved meanwhile are
\* video-only.
NextStore ==
  LET known == { rt.sessions[k] : k \in 1 .. Len(rt.sessions) }
               \cup (IF rt.activeSession = Null THEN {} ELSE {Val(rt.activeSession)})
               \cup { [id |-> 1, videoFile |-> TRUE, imus |-> << >>] }
  IN
  \/ /\ \E list \in UNION { [1 .. n -> known] : n \in 0 .. 2 } :
          rt' = setSessions(rt, list)
     /\ dispatched' = << "sessions-changed", "active-session-changed" >>
     /\ lastOp' = "setSessions"
     /\ uploadState' = uploadState
     /\ StoreFrame
  \/ /\ \E s \in { Some(x) : x \in known } \cup {Null} : rt' = setActiveSession(rt, s)
     /\ dispatched' = << "active-session-changed" >>
     /\ lastOp' = "setActiveSession"
     /\ uploadState' = uploadState
     /\ StoreFrame
  \/ /\ \E id \in 1 .. MaxSessionId : rt' = setActiveSessionById(rt, id)
     /\ dispatched' = << "active-session-changed" >>
     /\ lastOp' = "setActiveSessionById"
     /\ uploadState' = uploadState
     /\ StoreFrame
  \/ /\ rt' = hydrateRuntimeFromDb(rt)
     /\ dispatched' = << "sessions-changed", "active-session-changed" >>
     /\ lastOp' = "hydrateRuntimeFromDb"
     /\ uploadState' = uploadState
     /\ StoreFrame
  \/ /\ \E id \in 1 .. MaxSessionId :
          /\ rt' = deleteSession(rt, id)
          /\ dispatched' = IF Len(rt'.sessions) # Len(rt.sessions)
                           THEN << "sessions-changed", "active-session-changed" >>
                           ELSE << >>
     /\ lastOp' = "deleteSession"
     /\ uploadState' = uploadState
     /\ StoreFrame
  \* video input change / drop
  \/ /\ uploadState' = [uploadState EXCEPT !.video = TRUE]
     /\ dispatched' = << >>
     /\ lastOp' = "video"
     /\ rt' = rt
     /\ StoreFrame
  \/ SaveSession

SpecStore == InitStore /\ [][NextStore]_vars

\* The upload page's handlers; the store is changed by saveSession only.
NextUpload ==
  \* video input change / drop, Clear video button
  \/ /\ \E v \in BOOLEAN : uploadState' = [uploadState EXCEPT !.video = v]
     /\ dispatched' = << >>
     /\ lastOp' = "video"
     /\ rt' = rt
     /\ StoreFrame
  \* addImu
  \/ /\ uploadState.nextImuId <= MaxUploadImus
     /\ uploadState' =
          [uploadState EXCEPT
             !.imus = Append(@, [id |-> uploadState.nextImuId, file |-> FALSE, csvText |-> ""]),
             !.nextImuId = @ + 1]
     /\ dispatched' = << >>
     /\ lastOp' = "addImu"
     /\ rt' = rt
     /\ StoreFrame
  \* removeImu(id)
  \/ /\ \E k \in 1 .. Len(uploadState.imus) :
          uploadState' =
            [uploadState EXCEPT
               !.imus = SelectSeq(@, LAMBDA imu : imu.id # uploadState.imus[k].id)]
     /\ dispatched' = << >>
     /\ lastOp' = "removeImu"
     /\ rt' = rt
     /\ StoreFrame
  \* an IMU card's file input change / drop, up to `await file.text()`
  \/ /\ uploadState.reads = {}
     /\ \E k \in 1 .. Len(uploadState.imus) :
          uploadState' =
            [uploadState EXCEPT
               !.reads = { [id |-> uploadState.imus[k].id, csvText |-> "rows"] }]
     /\ dispatched' = << >>
     /\ lastOp' = "pickCsv"
     /\ rt' = rt
     /\ StoreFrame
  \* after `await file.text()`: updateImu(imuId, { file, csvText }), or the
  \* alert when reading failed
  \/ /\ \E r \in uploadState.reads, ok \in BOOLEAN :
          uploadState' =
            [uploadState EXCEPT
               !.imus = [k \in 1 .. Len(@) |->
                           IF ok /\ @[k].id = r.id
                           THEN [@[k] EXCEPT !.file = TRUE, !.csvText = r.csvText]
                           ELSE @[k]],
               !.reads = @ \ {r}]
     /\ dispatched' = << >>
     /\ lastOp' = "csvRead"
     /\ rt' = rt
     /\ StoreFrame
  \* Reset button
  \/ /\ uploadState' = resetAll(uploadState)
     /\ dispatched' = << >>
     /\ lastOp' = "resetAll"
     /\ rt' = rt
     /\ StoreFrame
  \/ SaveSession

SpecUpload == InitStore /\ [][NextUpload]_vars

\* ==================================================================
\* Properties
\* ==================================================================
TaskSet ==
  LET AllTasks == mq \o depsWaiters \o fusionWaiters
  IN { AllTasks[k] : k \in 1 .. Len(AllTasks) }

\* the session shown has been rendered and all work it started is done
Settled(s) == Quiescent /\ activeSession = s /\ lastSessionForSelector = s

\* C1: once the active session has been rendered and its background
\* precompute has completed, every non-null entry of fusionCacheByImu and of
\* window.imuFusionData at an index where the session has a CSV was computed
\* from that session's CSV for that index.
C1_NoStaleEntryAfterSwitch ==
  \A s \in Sessions : Settled(s) =>
    \A i \in ImuIdx : HasCsvText(s, i) =>
      /\ fusionCacheByImu[i] # Null => fusionCacheByImu[i][1][1] = s
      /\ imuFusionData[i] # Null => imuFusionData[i][1][1] = s

C4_ValidImusGetResults ==
  \A s \in Sessions :
    (Settled(s) /\ Len(getSessionImuList(s)) >= 2) =>
      \A i \in ImuIdx : CsvKind(s, i) = "ok" => fusionCacheByImu[i] # Null

\* C5: while a precompute run is computing the IMUs of a session, no renderImu
\* for that session is still short of its store, and the result of the IMU on
\* display (when its fusion succeeds) is in the cache at the selected index.
C5_ActiveImuBeforeBackground ==
  \A p \in TaskSet :
    (p.kind = "pre" /\ p.pc = "fusion") =>
      /\ \A r \in TaskSet : r.kind = "render" => r.sess # p.sess
      /\ (imuRows # Null /\ imuRows[1] = p.sess /\ CsvKind(imuRows[1], imuRows[2]) = "ok")
           => (fusionCacheByImu[selectedImuIndex] # Null
               /\ fusionCacheByImu[selectedImuIndex][1] = imuRows)

\* a precompute run is computing another IMU of the session on display
C5_Witness ==
  \E p \in TaskSet :
    /\ p.kind = "pre" /\ p.pc = "fusion"
    /\ imuRows # Null /\ imuRows[1] = p.sess
    /\ p.idx # selectedImuIndex
    /\ fusionCacheByImu[selectedImuIndex] # Null

\* the step in which precompute task Head(mq) takes up a failed background
\* computation for an index other than the selected one
BackgroundFailureStep ==
  /\ IsHead("pre", "fusion")
  /\ lastOp' = "PreStore"
  /\ Head(mq).res = Failed
  /\ Head(mq).idx # selectedImuIndex

\* C6: a failed background computation for a non-active index i is caught:
\* the cache entry for i is null afterwards (in window.imuFusionData and in
\* fusionCacheByImu), the run goes on to the remaining uncached indices, and
\* the selected IMU, its cache entry and the cursor are unchanged.
C6_BackgroundFailureContained ==
  [][ BackgroundFailureStep =>
        LET t == Head(mq)
        IN /\ imuFusionData'[t.idx] = Null
           /\ fusionCacheByImu'[t.idx] = Null
           /\ (\E j \in ImuIdx : j > t.idx /\ j < Len(getSessionImuList(t.sess))
                                 /\ PreWants(t.sess, j, imuFusionData'))
                => \E k \in 1 .. Len(mq') :
                     mq'[k].kind = "pre" /\ mq'[k].sess = t.sess
                     /\ mq'[k].pc = "fusion" /\ mq'[k].idx > t.idx
           /\ selectedImuIndex' = selectedImuIndex
           /\ fusionCacheByImu'[selectedImuIndex] = fusionCacheByImu[selectedImuIndex]
           /\ imuFusionData'[selectedImuIndex] = imuFusionData[selectedImuIndex]
           /\ runtimeFusion' = runtimeFusion
           /\ imuCursor' = imuCursor ]_vars

\* the precompute task that has just suspended at a processFusion await
JustComputed ==
  IF lastOp' \in {"PreLoop", "PreStore"} /\ mq' # << >>
     /\ mq'[Len(mq')].kind = "pre" /\ mq'[Len(mq')].pc = "fusion"
     /\ Len(mq') = Len(mq)
  THEN Some(<<mq'[Len(mq')].sess, mq'[Len(mq')].idx>>) ELSE Null

SyncIsReset ==
  /\ tsState = [videoMarkerT |-> Null, offset |-> Null, t1 |-> Null, t2 |-> Null]
  /\ imuMarker = Null
  /\ timeSyncOffset = Null
  /\ followVideo = FALSE

\* C8: the handler of an active-session change leaves the time-sync state
\* fully reset (video marker, IMU marker, offset, t1, t2 null, followVideo
\* false), and once the last pending render has run its synchronous part the
\* cursor is at 0 with bounds [0, full range] of the stream of the active
\* session that is now displayed.
C8_SessionChangeResets ==
  /\ lastOp = "SelectSession" => SyncIsReset
  /\ (lastOp = "RenderSync"
      /\ \A t \in TaskSet : ~(t.kind = "render" /\ t.pc = "deps")) =>
       /\ lastSessionForSelector = activeSession
       /\ imuCursor = [x |-> 0, minX |-> 0,
                       maxX |-> CsvMaxT(activeSession, selectedImuIndex)]
       /\ imuFullRangeMaxX = CsvMaxT(activeSession, selectedImuIndex)

\* session A, displayed before, has been left and selected again, and the
\* render of the change has just run
C8_Witness ==
  /\ lastOp = "RenderSync"
  /\ activeSession = "A"
  /\ lastSessionForSelector = "A"
  /\ imuFusionData[0] # Null
  /\ SyncIsReset
  /\ imuCursor = [x |-> 0, minX |-> 0, maxX |-> CsvMaxT("A", 0)]

\* C9: computeOffset sets offset = videoMarker - imuMarker when both markers
\* are set; when either is unset it changes no time-sync field, neither the
\* mode nor the toggle, and dispatches no event.
C9_ComputeOffset ==
  [][ lastOp' \in {"ComputeOffset", "ComputeOffsetWhileFollowing"} =>
        IF IsSet(tsState.videoMarkerT) /\ IsSet(imuMarker)
        THEN tsState'.offset = Some(Val(tsState.videoMarkerT) - Val(imuMarker))
        ELSE /\ tsState' = tsState
             /\ imuMarker' = imuMarker
             /\ timeSyncOffset' = timeSyncOffset
             /\ followVideo' = followVideo
             /\ toggleEnabled' = toggleEnabled
             /\ dispatched' = << >> ]_vars

\* computeOffset has produced a non-zero offset from the two markers
C9_Witness ==
  /\ lastOp \in {"ComputeOffset", "ComputeOffsetWhileFollowing"}
  /\ IsSet(tsState.videoMarkerT) /\ IsSet(imuMarker)
  /\ tsState.offset = Some(Val(tsState.videoMarkerT) - Val(imuMarker))
  /\ Val(tsState.offset) # 0

\* C10: every successful computeOffset leaves Manual mode with the
\* Follow/Manual toggle enabled, also when invoked in Follow mode.
C10_ComputeOffsetForcesManual ==
  (lastOp \in {"ComputeOffset", "ComputeOffsetWhileFollowing"} /\ dispatched # << >>)
    => (followVideo = FALSE /\ toggleEnabled)

\* a successful computeOffset that was invoked while Follow mode was active
C10_Witness ==
  /\ lastOp = "ComputeOffsetWhileFollowing"
  /\ dispatched # << >>
  /\ followVideo = FALSE

\* C11: Follow/Manual is locked until an offset exists: in every state with
\* followVideo = true the time-sync panel's offset and the session viewer's
\* cached copy of it are both non-null.
C11_FollowNeedsOffset ==
  followVideo => (IsSet(tsState.offset) /\ IsSet(timeSyncOffset))

\* Follow mode is on
C11_Witness ==
  /\ followVideo
  /\ lastOp = "FollowClick"
  /\ tsState.offset = timeSyncOffset

\* C12: clear sets the video marker, the IMU marker, the offset, t1 and t2 to
\* null, sets followVideo to false, disables the Follow/Manual toggle and
\* reverts the cursor's allowed range to the full stream [0, full range], the
\* cursor staying inside it.
C12_ClearResetsAll ==
  lastOp = "ClearAll" =>
    /\ SyncIsReset
    /\ toggleEnabled = FALSE
    /\ imuTimeframe.active = FALSE
    /\ imuCursor.minX = 0
    /\ imuCursor.maxX = imuFullRangeMaxX
    /\ imuCursor.x \in 0 .. imuFullRangeMaxX

\* clear has run in a session whose playhead had been moved by Follow mode
\* (so an offset existed and the toggle was enabled) and whose cursor is not
\* at the start of the stream
C12_Witness ==
  /\ lastOp = "ClearAll"
  /\ videoT > 0
  /\ imuCursor.x > 0
  /\ imuCursor.maxX = imuFullRangeMaxX
  /\ SyncIsReset
  /\ toggleEnabled = FALSE

\* C13: applyTimeframe with t1 and t2 both set and t1 # t2 sets the cursor
\* bounds to [min(t1,t2), max(t1,t2)] and clamps the cursor into that range;
\* with t1 = t2 or either bound unset it changes neither the bounds nor the
\* cursor (and dispatches nothing).
C13_ApplyTimeframe ==
  [][ lastOp' = "ApplyTimeframe" =>
        IF tsState.t1 # Null /\ tsState.t2 # Null /\ tsState.t1 # tsState.t2
        THEN LET a == Min(Val(tsState.t1), Val(tsState.t2))
                 b == Max(Val(tsState.t1), Val(tsState.t2))
             IN /\ imuCursor'.minX = a
                /\ imuCursor'.maxX = b
                /\ imuCursor'.x = Min(b, Max(a, imuCursor.x))
        ELSE /\ imuCursor' = imuCursor
             /\ dispatched' = << >> ]_vars

\* applyTimeframe has run with t1 after t2: the bounds are the ordered pair
\* and exclude the start of the stream
C13_Witness ==
  /\ lastOp = "ApplyTimeframe"
  /\ IsSet(tsState.t1) /\ IsSet(tsState.t2)
  /\ Val(tsState.t1) > Val(tsState.t2)
  /\ imuCursor.minX = Val(tsState.t2)
  /\ imuCursor.maxX = Val(tsState.t1)
  /\ imuCursor.minX > 0
  /\ imuCursor.x = imuCursor.minX

\* C14: resetBounds clears t1 and t2 and sets the cursor bounds back to the full
\* stream range [0, full range], and leaves the video marker, the IMU marker,
\* the offset (the panel's and the cached copy) and the Follow/Manual mode
\* unchanged.
C14_ResetBoundsFrame ==
  [][ lastOp' = "ResetT1T2" =>
        /\ tsState'.t1 = Null
        /\ tsState'.t2 = Null
        /\ imuCursor'.minX = 0
        /\ imuCursor'.maxX = imuFullRangeMaxX
        /\ tsState'.videoMarkerT = tsState.videoMarkerT
        /\ imuMarker' = imuMarker
        /\ tsState'.offset = tsState.offset
        /\ timeSyncOffset' = timeSyncOffset
        /\ followVideo' = followVideo
        /\ toggleEnabled' = toggleEnabled ]_vars

\* resetBounds has run in Follow mode with both markers and a non-zero offset
\* in place
C14_Witness ==
  /\ lastOp = "ResetT1T2"
  /\ followVideo
  /\ IsSet(tsState.videoMarkerT) /\ IsSet(imuMarker)
  /\ IsSet(tsState.offset) /\ Val(tsState.offset) # 0
  /\ tsState.t1 = Null /\ tsState.t2 = Null
  /\ imuCursor.minX = 0 /\ imuCursor.maxX = imuFullRangeMaxX

\* C15: in every reachable state minX <= cursor <= maxX, under any sequence of
\* cursor moves (slider, follow-video updates), applyTimeframe, resetBounds,
\* clear and session re-renders. (An IMU tab switch re-runs renderImu, the
\* step RenderSync that a session re-render runs.)
C15_CursorWithinBounds ==
  /\ imuCursor.minX <= imuCursor.x
  /\ imuCursor.x <= imuCursor.maxX

\* a follow-video update asked for a cursor position outside the applied
\* timeframe and the cursor was clamped to it
C15_Witness ==
  /\ lastOp = "VideoSeeked"
  /\ followVideo
  /\ IsSet(timeSyncOffset)
  /\ imuTimeframe.active
  /\ imuCursor.x # videoT - Val(timeSyncOffset)
  /\ imuCursor.minX <= imuCursor.x
  /\ imuCursor.x <= imuCursor.maxX

\* C16 (as stated): whenever the user moves the IMU cursor to time t in follow
\* mode, the video playhead is set to exactly t + offset, for every t in the
\* cursor range and every offset (checked here only where t + offset does not
\* exceed the length of the video).
C16_PlayheadIsExactlyTPlusOffset ==
  [][ (lastOp' = "SliderInput" /\ followVideo /\ IsSet(timeSyncOffset)
       /\ imuCursor'.x + Val(timeSyncOffset) <= MaxVideoT)
        => videoT' = imuCursor'.x + Val(timeSyncOffset) ]_vars

\* C16 (amended): whenever the user moves the IMU cursor to time t in follow
\* mode, the video playhead is written with max(0, t + offset), which the
\* video limits to its length: it is exactly t + offset when that lies within
\* the video, and 0 when t + offset is negative.
C16_PlayheadIsTPlusOffsetFromZero ==
  [][ (lastOp' = "SliderInput" /\ followVideo /\ IsSet(timeSyncOffset))
        => LET target == imuCursor'.x + Val(timeSyncOffset)
           IN /\ videoT' = IF target < 0 THEN 0
                            ELSE IF target > MaxVideoT THEN MaxVideoT
                            ELSE target
              /\ seekedPending' ]_vars

\* the cursor was moved in follow mode with a non-zero offset and the playhead
\* is at cursor + offset
C16_Witness ==
  /\ lastOp = "SliderInput"
  /\ followVideo
  /\ IsSet(timeSyncOffset)
  /\ Val(timeSyncOffset) > 0
  /\ imuCursor.x > 0
  /\ videoT = imuCursor.x + Val(timeSyncOffset)
  /\ seekedPending

\* C17: in follow mode a video time update at time v moves the IMU cursor to
\* v - offset clamped to the cursor bounds, and the IMU -> VIDEO listener writes
\* no playhead (the playhead stays at v and no seek is started); outside
\* follow mode a video time update does not move the IMU cursor at all.
C17_VideoUpdateMovesCursorOneWay ==
  [][ lastOp' = "VideoTimeUpdate" =>
        IF followVideo /\ IsSet(timeSyncOffset)
        THEN /\ imuCursor'.x = Min(imuCursor.maxX,
                                   Max(imuCursor.minX, videoT' - Val(timeSyncOffset)))
             /\ imuCursor'.minX = imuCursor.minX
             /\ imuCursor'.maxX = imuCursor.maxX
             /\ dispatched' = << "imu-cursor-changed" >>
             /\ seekedPending' = seekedPending
        ELSE /\ imuCursor' = imuCursor
             /\ dispatched' = << >>
             /\ seekedPending' = seekedPending ]_vars

\* a video time update in follow mode with a non-zero offset has moved the
\* cursor to v - offset, and no playhead write is in flight
C17_Witness ==
  /\ lastOp = "VideoTimeUpdate"
  /\ followVideo
  /\ IsSet(timeSyncOffset)
  /\ Val(timeSyncOffset) # 0
  /\ imuCursor.x > 0
  /\ imuCursor.x = videoT - Val(timeSyncOffset)
  /\ ~seekedPending

\* C18: in follow mode a playhead write made by the IMU -> VIDEO listener never
\* results in a further IMU cursor update by the VIDEO -> IMU listener, also
\* when the video's timeupdate/seeked event for that write is delivered after
\* the listener has returned: the delivery of that event leaves the IMU cursor
\* where it is.
C18_OwnWriteDoesNotMoveCursor ==
  [][ lastOp' = "VideoSeeked" => imuCursor' = imuCursor ]_vars

\* all three joints selected, the three indices pairwise distinct, and a
\* non-null FusionResult stored for each of them
C19_Precondition ==
  /\ armSelect.shoulder # Null /\ armSelect.elbow # Null /\ armSelect.wrist # Null
  /\ armSelect.shoulder # armSelect.elbow
  /\ armSelect.shoulder # armSelect.wrist
  /\ armSelect.elbow # armSelect.wrist
  /\ imuFusionData[armSelect.shoulder[1]] # Null
  /\ imuFusionData[armSelect.elbow[1]] # Null
  /\ imuFusionData[armSelect.wrist[1]] # Null

\* C19: Calculate invokes the angle analyser only if all three joint roles are
\* selected, the three IMU indices are pairwise distinct and each selected
\* index has a non-null FusionResult; otherwise it reports a message and
\* leaves the analyser untouched, and whenever it reports a message the
\* previously computed angles and the displayed results are unchanged.
C19_CalculateGuards ==
  [][ lastOp' = "Calculate" =>
        /\ ~C19_Precondition =>
             /\ dispatched' # << >>
             /\ analyserImus' = analyserImus
        /\ C19_Precondition =>
             analyserImus' = << [shoulder |-> imuFusionData[armSelect.shoulder[1]],
                                 elbow    |-> imuFusionData[armSelect.elbow[1]],
                                 wrist    |-> imuFusionData[armSelect.wrist[1]]] >>
        /\ dispatched' # << >> =>
             /\ armAngles' = armAngles
             /\ armResults' = armResults ]_vars

\* Calculate has been refused for a duplicate selection after an earlier
\* successful analysis, whose angles are still in place
C19_Witness ==
  /\ lastOp = "Calculate"
  /\ dispatched = << "Shoulder, elbow, wrist must be different IMUs." >>
  /\ armSelect.shoulder # Null
  /\ armSelect.shoulder = armSelect.elbow
  /\ armAngles # Null
  /\ armResults # Null

\* the four input series of the analysis that ran last
C20_Lengths ==
  { Len(orientations(analyserImus[1].shoulder)),
    Len(orientations(analyserImus[1].elbow)),
    Len(orientations(analyserImus[1].wrist)),
    Len(times(analyserImus[1].shoulder)) }

\* C20: an angle analysis that returns yields elbow, wrist, shoulder and times
\* series which all have length n = min(len(shoulder.orientations),
\* len(elbow.orientations), len(wrist.orientations), len(shoulder.times)), and
\* element i of each is a function of the i-th samples of the inputs alone:
\* elbow[i] of the i-th shoulder and elbow quaternions, wrist[i] of the i-th
\* elbow and wrist quaternions, shoulder[i] of the i-th shoulder Euler
\* angles, times[i] = shoulder.times[i].
C20_TruncatesToShortest ==
  [][ (lastOp' = "Calculate" /\ dispatched' = << >>) =>
        LET in == analyserImus'[1]
            out == armAngles'[1]
            n == CHOOSE m \in C20_Lengths' : \A k \in C20_Lengths' : m <= k
        IN /\ Len(out.elbow) = n /\ Len(out.wrist) = n
           /\ Len(out.shoulder) = n /\ Len(out.times) = n
           /\ \A i \in 1 .. n :
                /\ out.elbow[i] = relativeAngleDeg(orientations(in.shoulder)[i].quat,
                                                   orientations(in.elbow)[i].quat)
                /\ out.wrist[i] = relativeAngleDeg(orientations(in.elbow)[i].quat,
                                                   orientations(in.wrist)[i].quat)
                /\ out.shoulder[i].pitch = 90 * orientations(in.shoulder)[i].euler.pitch
                /\ out.shoulder[i].roll  = 90 * orientations(in.shoulder)[i].euler.roll
                /\ out.shoulder[i].yaw   = 90 * orientations(in.shoulder)[i].euler.yaw
                /\ out.times[i] = times(in.shoulder)[i] ]_vars

\* an analysis has returned series of two samples although one of its inputs
\* is longer, and the elbow and wrist angles differ somewhere
C20_Witness ==
  /\ lastOp = "Calculate"
  /\ dispatched = << >>
  /\ armAngles # Null
  /\ Len(armAngles[1].elbow) = 2
  /\ \E k \in C20_Lengths : k > 2
  /\ armAngles[1].elbow # armAngles[1].wrist

\* an analysis was run on three FusionResults of which at least one has no
\* orientation sample
EmptySeriesGiven ==
  /\ Called("setImuData")
  /\ \E k \in 2 .. 4 : Len(orientations(libIn[k])) = 0

\* C21 (as stated): when any of the three input series is empty, the angle
\* analysis completes without raising an error and reports NaN for the mean,
\* min, max and range of each joint.
C21_EmptySeriesGivesNaNStats ==
  EmptySeriesGiven =>
    /\ Thrown = Null
    /\ \A joint \in {"elbow", "wrist"} :
         /\ Result.stats[joint].sum = NaN
         /\ Result.stats[joint].min = NaN
         /\ Result.stats[joint].max = NaN
         /\ Result.stats[joint].range = NaN

\* C21 (amended): when any of the three input series is empty, the angle
\* analysis raises "No samples available to compute angles." and reports no
\* angles and no statistics.
C21_EmptySeriesRaisesNoSamples ==
  EmptySeriesGiven =>
    /\ Thrown = Some("No samples available to compute angles.")
    /\ Result = Null

C21_Witness ==
  /\ EmptySeriesGiven
  /\ lastOp = "setImuData"
  /\ Len(orientations(libIn[3])) = 0
  /\ Len(orientations(libIn[2])) > 0
  /\ Thrown # Null

\* C22: relativeAngle(q, -q) = 0 degrees for every unit quaternion q, whatever
\* the sign or value of its scalar part w.
C22_NegatedQuaternionGivesZero ==
  (Called("relativeAngleDeg") /\ libIn[3] = [i \in 1 .. 4 |-> -libIn[2][i]]) => Result = 0

\* the attitude estimator was called on input that has no rows, or lacks a
\* header for some axis of some sensor, or names a filter that is not there
ProcessInputUnusable ==
  /\ Called("process")
  /\ LET o == libIn[2]
     IN \/ Len(o.rows) = 0
        \/ \E sensor \in {"acc", "gyro", "mag"}, axis \in {"x", "y", "z"} :
             \A k \in 1 .. Len(candidates(sensor, axis)) :
               \A i \in 1 .. Len(o.headers) : o.headers[i] # candidates(sensor, axis)[k]
        \/ "Madgwick" \notin o.lib
        \/ o.algorithm \notin {"madgwick", "mahony", "complementary"}
        \/ (o.algorithm = "mahony" /\ "Mahony" \notin o.lib)

\* C23: the attitude estimator raises an error and produces no FusionResult
\* whenever the input has no rows, or any one axis of the accelerometer,
\* gyroscope or magnetometer triplet cannot be matched to a header, or the
\* filter implementation or algorithm name is unavailable.
C23_UnusableInputRaises ==
  ProcessInputUnusable => (Thrown # Null /\ Result = Null)

C23_Witness ==
  /\ ProcessInputUnusable
  /\ lastOp = "process"
  /\ Len(libIn[2].rows) > 0
  /\ libIn[2].lib = {"Madgwick", "Mahony"}
  /\ libIn[2].algorithm = "madgwick"
  /\ libIn[2].headers = WithoutColumn(FullHeaders, 6)
  /\ Thrown = Some("9-DOF data required (acc + gyro + mag)")

\* C24: every FusionResult stored in the cache has exactly one orientation
\* per input row of the stream it was computed from, and its times array has
\* the same length as its orientations array.
C24_CachedTimesMatchOrientations ==
  \A i \in ImuIdx :
    fusionCacheByImu[i] # Null =>
      /\ Len(orientations(fusionCacheByImu[i])) = CsvRowCount(fusionCacheByImu[i][1])
      /\ Len(times(fusionCacheByImu[i])) = Len(orientations(fusionCacheByImu[i]))

\* C30: under any interleaving of overlapping renderImu invocations, every
\* FusionResult written to cache index i was computed from the rows of IMU i,
\* with a times array derived from those same rows.
C30_CacheEntryIsOfItsOwnImu ==
  \A i \in ImuIdx :
    fusionCacheByImu[i] # Null =>
      /\ fusionCacheByImu[i][1][2] = i
      /\ fusionCacheByImu[i][2] = fusionCacheByImu[i][1]

\* C28: for a non-empty ascending time array and any query time x, the
\* nearest-sample lookup returns an index i that minimises |times[i] - x|
\* (index 0 when x is at or before the first sample, the last index when x is
\* at or after the last; where both apply, all samples being equal to x, the
\* two cannot both be returned and index 0 is).
C28_NearestIndexMinimisesDistance ==
  (Called("nearestIndex") /\ Len(libIn[2]) > 0) =>
    LET ts == libIn[2]
        x     == libIn[3]
    IN /\ Result \in 0 .. (Len(ts) - 1)
       /\ \A j \in 1 .. Len(ts) : Abs(ts[Result + 1] - x) <= Abs(ts[j] - x)
       /\ x <= ts[1] => Result = 0
       /\ (x >= ts[Len(ts)] /\ ~ (x <= ts[1])) => Result = Len(ts) - 1

\* a query strictly between two different samples and nearer to the later one
C28_Witness ==
  /\ Called("nearestIndex")
  /\ lastOp = "nearestIndex"
  /\ Len(libIn[2]) = MaxSamples
  /\ Result \in 1 .. (Len(libIn[2]) - 2)
  /\ libIn[2][Result] < libIn[3] - 1
  /\ libIn[3] < libIn[2][Result + 1]

\* the points of the series downsampleXY was given
InputPoint(i) == [x |-> libIn[2][i], y |-> libIn[3][i]]

\* C29: downsampleXY with maxPoints >= input length returns every input
\* point unchanged and in the original order; with input length >
\* maxPoints >= 1 it returns at most maxPoints points taken at a constant
\* stride starting from the first point.
C29_DownsampleKeepsOrStrides ==
  (Called("downsampleXY") /\ Len(libIn[2]) = Len(libIn[3])) =>
    LET n         == Len(libIn[2])
        maxPoints == libIn[4]
    IN /\ maxPoints >= n => Result = [i \in 1 .. n |-> InputPoint(i)]
       /\ (n > maxPoints /\ maxPoints >= 1) =>
            /\ Len(Result) <= maxPoints
            /\ Len(Result) >= 1
            /\ \E stride \in 1 .. n :
                 /\ \A j \in 1 .. Len(Result) : Result[j] = InputPoint(1 + (j - 1) * stride)
                 /\ 1 + Len(Result) * stride > n

\* a series thinned with a stride of two or more to several points
C29_Witness ==
  /\ Called("downsampleXY")
  /\ lastOp = "downsampleXY"
  /\ Len(libIn[2]) = Len(libIn[3])
  /\ Len(libIn[2]) > libIn[4]
  /\ Len(Result) >= 2
  /\ Len(Result) < libIn[4]
  /\ Result[2] = InputPoint(3)

\* positive differences of consecutive finite entries, anywhere in the column
PositiveDeltas(runs) ==
  { Val(runs[j].v) - Val(runs[i].v) :
      << i, j >> \in { p \in (1 .. Len(runs)) \X (1 .. Len(runs)) :
                        /\ p[1] < p[2]
                        /\ runs[p[1]].v # Null /\ runs[p[2]].v # Null
                        /\ \A k \in (p[1] + 1) .. (p[2] - 1) : runs[k].v = Null
                        /\ Val(runs[p[2]].v) - Val(runs[p[1]].v) > 0 } }

\* last finite entry minus first finite entry is positive
SpanPositive(runs) ==
  /\ scanColumn(runs).firstVal # Null
  /\ Val(scanColumn(runs).lastVal) - Val(scanColumn(runs).firstVal) > 0

\* scale is what the rule gives for a median delta md: 10^-exp for the first
\* exp from 9 down to -3 that passes both tests, else the scale that makes
\* md * scale equal to 0.01
ScaleByRule(scale, md, runs, unit) ==
  LET span  == Val(scanColumn(runs).lastVal) - Val(scanColumn(runs).firstVal)
      count == scanColumn(runs).validCount
      passes(x) ==
        /\ DecLeq(<< 5, -4 >>, << md, unit - x >>) /\ DecLeq(<< md, unit - x >>, << 2, 0 >>)
        /\ DecLeq(<< span, unit - x >>, << count, 0 >>)
        /\ DecLeq(<< count, 0 >>, << 500 * span, unit - x >>)
  IN \/ \E x \in -3 .. 9 :
          /\ scale = [m |-> 1, e |-> -x, div |-> 1]
          /\ passes(x)
          /\ \A y \in (x + 1) .. 9 : ~ passes(y)
     \/ /\ \A x \in -3 .. 9 : ~ passes(x)
        /\ scale.m * md = scale.div
        /\ scale.e + unit = -2

\* C25 (as stated): for a timestamp column with at least one positive
\* consecutive delta and a positive span, the detected scale is the first
\* candidate power of ten whose scaled median delta lies in [0.5 ms, 2 s] and
\* whose implied rate validSampleCount / scaledSpan lies in [1 Hz, 500 Hz];
\* if no candidate satisfies both, the scale is the one that makes the median
\* delta exactly 10 ms. (Any positive delta of the column is accepted as its
\* median here.)
C25_ScaleIsFirstPlausiblePowerOfTen ==
  (Called("detectTimeScaleFactor") /\ PositiveDeltas(libIn[2]) # {}
     /\ SpanPositive(libIn[2])) =>
    \E md \in PositiveDeltas(libIn[2]) : ScaleByRule(Result, md, libIn[2], libIn[3])

\* C25 (amended): the same, for a column with a positive consecutive delta
\* among its first 201 rows, the median being the upper middle one of those
\* deltas; a column whose positive deltas all lie later gets scale 1.
C25_ScaleIsFirstPlausibleWithinWindow ==
  (Called("detectTimeScaleFactor") /\ SpanPositive(libIn[2])) =>
    IF Len(scanColumn(libIn[2]).dts) > 0
    THEN ScaleByRule(Result, medianOf(scanColumn(libIn[2]).dts), libIn[2], libIn[3])
    ELSE Result = One

\* a candidate was chosen after a candidate tried earlier had a plausible
\* sample interval but an implausible rate
C25_Witness ==
  /\ Called("detectTimeScaleFactor")
  /\ lastOp = "detectTimeScaleFactor"
  /\ SpanPositive(libIn[2])
  /\ Len(scanColumn(libIn[2]).dts) > 1
  /\ Result.div = 1
  /\ \E y \in (1 - Result.e) .. 9 :
       /\ DecLeq(<< 5, -4 >>, << medianOf(scanColumn(libIn[2]).dts), libIn[3] - y >>)
       /\ DecLeq(<< medianOf(scanColumn(libIn[2]).dts), libIn[3] - y >>, << 2, 0 >>)

\* time-base normalisation was run on a column with fewer than two finite
\* time stamps
TooShortColumn ==
  /\ Called("normalizeTimeColumnInPlace")
  /\ scanColumn(libIn[2]).validCount < 2

\* the scale the caller goes on with: `norm.scale ?? 1.0`
UsedScale == IF Result.info.scale = Null THEN One ELSE Val(Result.info.scale)

\* C26 (as stated): for an empty input, or an input with fewer than two valid
\* timestamps, time-base normalization does not throw, uses scale 1.0 and
\* leaves every row's time value unmodified (no rewrite).
C26_TooShortColumnIsLeftAlone ==
  TooShortColumn =>
    /\ Thrown = Null
    /\ UsedScale = One
    /\ \A j \in 1 .. Len(libIn[2]) :
         Result.rows[j].value = entryValue(libIn[2][j].v, libIn[3])

\* C26 (amended): for such an input normalization does not throw and uses
\* scale 1.0; no row is rewritten when the input is empty or its first row
\* has no finite time, otherwise the one finite time stamp, which is in the
\* first row, is rewritten to 0 and the other rows are left as they are.
C26_TooShortColumnIsOnlyRebased ==
  TooShortColumn =>
    /\ Thrown = Null
    /\ UsedScale = One
    /\ \A j \in 1 .. Len(libIn[2]) :
         IF j = 1 /\ libIn[2][1].v # Null
         THEN /\ Result.rows[j].rewritten
              /\ Result.rows[j].value = Some([m |-> 0, e |-> libIn[3], div |-> 1])
         ELSE /\ ~ Result.rows[j].rewritten
              /\ Result.rows[j].value = entryValue(libIn[2][j].v, libIn[3])

\* a single finite, non-zero time stamp followed by rows without one
C26_Witness ==
  /\ TooShortColumn
  /\ lastOp = "normalizeTimeColumnInPlace"
  /\ Len(libIn[2]) > 1
  /\ libIn[2][1].v # Null
  /\ Val(libIn[2][1].v) > 0
  /\ Result.rows[1].value # entryValue(libIn[2][1].v, libIn[3])

\* C27: non-finite time entries are skipped when computing the scale
\* statistics, and all rows (that have a finite time) are still rewritten
\* using the computed scale, wherever in the column the non-finite entries
\* occur (first row included).
C27_RowsRewrittenDespiteNonFinite ==
  (/\ Called("normalizeTimeColumnInPlace")
   /\ \E j \in 1 .. Len(libIn[2]) : libIn[2][j].v = Null
   /\ \E j \in 1 .. Len(libIn[2]) : libIn[2][j].v # Null) =>
    /\ Result.info.scale = Some(detectTimeScaleFactor(libIn[2], libIn[3]))
    /\ \A j \in 1 .. Len(libIn[2]) :
         libIn[2][j].v # Null =>
           /\ Result.rows[j].rewritten
           /\ Val(Result.rows[j].value).e = Val(Result.info.scale).e + libIn[3]
           /\ Val(Result.rows[j].value).div = Val(Result.info.scale).div
           /\ \E origin \in 0 .. MaxStamp :
                Val(Result.rows[j].value).m =
                  (Val(libIn[2][j].v) - origin) * Val(Result.info.scale).m

\* C31: the two per-IMU fusion stores agree: whenever no script is running
\* (after every render, tab switch, background precompute step or failure),
\* fusionCacheByImu and window.imuFusionData hold the same FusionResult, or
\* both hold none, for every IMU index.
C31_StoresAgree ==
  \A i \in ImuIdx : fusionCacheByImu[i] = imuFusionData[i]

\* C32: once the render of the shown session and the work it started are
\* done, window.MoveSync.runtime.fusion is the cache entry of the selected
\* IMU (none when that IMU's fusion failed or its CSV is empty), also after a
\* tab switch and after a session change.
C32_RuntimeFusionIsSelectedEntry ==
  Quiescent => runtimeFusion = fusionCacheByImu[selectedImuIndex]

\* C33: whenever a timeframe is marked as applied, the cursor bounds are that
\* timeframe's [start, end]; whenever none is applied they are the displayed
\* stream's full range [0, imuFullRangeMaxX]; also across IMU tab switches and
\* re-renders.
C33_BoundsFollowTimeframe ==
  IF imuTimeframe.active
  THEN imuCursor.minX = imuTimeframe.start /\ imuCursor.maxX = imuTimeframe.end
  ELSE imuCursor.minX = 0 /\ imuCursor.maxX = imuFullRangeMaxX

\* C34: the IMU panel's T1/T2 markers equal the time-sync panel's t1/t2 after
\* any sequence of markT1, markT2, resetBounds, applyTimeframe and clear: a
\* bound that is unset in the time-sync state is unset in the IMU panel, and
\* a set bound has the same value in both.
C34_MarkersEqualTimeSync ==
  imuTimeframe.t1 = tsState.t1 /\ imuTimeframe.t2 = tsState.t2

\* C35: after any sequence of session-store operations (setSessions,
\* setActiveSession, setActiveSessionById, deleteSession,
\* hydrateRuntimeFromDb) and upload saves, the active session is null or a
\* member of the session list.
C35_ActiveSessionIsListed ==
  rt.activeSession = Null
  \/ \E k \in 1 .. Len(rt.sessions) : rt.sessions[k] = Val(rt.activeSession)

\* C37: a session is saved only from a form that has a video or at least one
\* IMU and in which every added IMU has a CSV file, so that the session just
\* saved contains no IMU without CSV data.
C37_SavedImusHaveCsv ==
  lastOp = "saveSession" =>
    LET session == rt.sessions[Len(rt.sessions)]
    IN /\ session.videoFile \/ Len(session.imus) > 0
       /\ \A k \in 1 .. Len(session.imus) : session.imus[k].file

\* C36: for any two unit quaternions the relative angle computed lies in
\* [0, 180] degrees: it is the smallest rotation angle between the two
\* orientations.
C36_RelativeAngleAtMostHalfTurn ==
  Called("relativeAngleDeg") => (Result >= 0 /\ Result <= 180)

\* C38: populateSelectors assigns a joint selector from an IMU's skeletonNode
\* only if that selector is still unset: a shoulder / elbow / wrist choice
\* the user made before the call (an IMU of the list) is still shown after it.
C38_ManualChoicePreserved ==
  Called("populateSelectors") =>
    \A joint \in {"shoulder", "elbow", "wrist"} :
      (libIn[3][joint] # Null /\ Val(libIn[3][joint]) < Len(libIn[2]))
        => Result[joint] = libIn[3][joint]
====
